---- MODULE Spec2Model ----
(***************************************************************************)
(* Model of the execution engine of ts-function-tester                     *)
(* (CodeExecutor.executeFunction and its helpers) together with the part   *)
(* of the signature extractor (CodeParser) that produces the descriptors   *)
(* the engine is run on.                                                   *)
(*                                                                         *)
(* Texts that the engine inspects character by character (raw argument     *)
(* values, the follow-up argument string) are sequences of one-character   *)
(* strings.  Source texts of user declarations are sequences of tokens.    *)
(* Runtime values of the evaluation context are tagged records.            *)
(***************************************************************************)
EXTENDS Integers, Sequences, FiniteSets, TLC

(***************************************************************************)
(* Bounds of the model.                                                    *)
(***************************************************************************)
MaxClock == 1
MaxHost == 2

\* ------------------------------------------------------------------------
\* Text helpers (String.prototype methods used by the engine)
\* ------------------------------------------------------------------------
IsWs(ch) == ch \in {" ", "\n"}

RECURSIVE TrimLeft(_)
TrimLeft(s) ==
  IF Len(s) > 0 /\ IsWs(s[1]) THEN TrimLeft(Tail(s)) ELSE s

RECURSIVE TrimRight(_)
TrimRight(s) ==
  IF Len(s) > 0 /\ IsWs(s[Len(s)]) THEN TrimRight(SubSeq(s, 1, Len(s) - 1)) ELSE s

\* String.prototype.trim
Trim(s) == TrimRight(TrimLeft(s))

\* String.prototype.startsWith / endsWith / includes
StartsWith(s, p) == Len(s) >= Len(p) /\ SubSeq(s, 1, Len(p)) = p
EndsWith(s, p) == Len(s) >= Len(p) /\ SubSeq(s, Len(s) - Len(p) + 1, Len(s)) = p
Includes(s, p) ==
  \E i \in 1..(Len(s) + 1) : i + Len(p) - 1 <= Len(s) /\ SubSeq(s, i, i + Len(p) - 1) = p

\* String.prototype.slice(1, -1)
SliceInner(s) == SubSeq(s, 2, Len(s) - 1)

\* String.prototype.split(',')
RECURSIVE SplitComma(_)
SplitComma(s) ==
  IF \A i \in 1..Len(s) : s[i] # ","
  THEN <<s>>
  ELSE LET i == CHOOSE k \in 1..Len(s) : s[k] = "," /\ \A j \in 1..(k - 1) : s[j] # ","
       IN <<SubSeq(s, 1, i - 1)>> \o SplitComma(SubSeq(s, i + 1, Len(s)))

\* ------------------------------------------------------------------------
\* Runtime values
\* ------------------------------------------------------------------------
VUndef == [t |-> "undefined"]
VNull == [t |-> "null"]
VNaN == [t |-> "NaN"]
VInf == [t |-> "Infinity"]
VBool(b) == [t |-> "boolean", b |-> b]
VNum(n) == [t |-> "number", n |-> n]
VStr(s) == [t |-> "string", s |-> s]
VArr(a) == [t |-> "array", a |-> a]
VObj(o) == [t |-> "object", o |-> o]
\* an object that holds a reference to itself; proto is "Object" for an
\* object literal and "null" for Object.create(null)
VCyclic(proto) == [t |-> "object", o |-> <<>>, cyclic |-> TRUE, proto |-> proto]
VFun(f, env) == [t |-> "function", f |-> f, env |-> env]
VErr(m) == [t |-> "Error", m |-> m]
VPromise(st, v) == [t |-> "promise", st |-> st, pv |-> v]

\* result of an evaluation that may throw
Ok(v) == [ok |-> TRUE, v |-> v]
Thrown(v) == [ok |-> FALSE, v |-> v]

\* typeof x === 'function'
IsCallable(v) == v.t = "function"
\* Array.isArray
IsArray(v) == v.t = "array"
\* duck-typed awaitable: typeof x.then === 'function'
IsThenable(v) == v.t = "promise"

\* ------------------------------------------------------------------------
\* Number(text) and isNaN, as used at part_001:111-112 and 163-164
\* ------------------------------------------------------------------------
Digits == {"0", "1", "2", "3", "4", "5", "6", "7", "8", "9"}

DigitVal(ch) ==
  CASE ch = "0" -> 0 [] ch = "1" -> 1 [] ch = "2" -> 2 [] ch = "3" -> 3
    [] ch = "4" -> 4 [] ch = "5" -> 5 [] ch = "6" -> 6 [] ch = "7" -> 7
    [] ch = "8" -> 8 [] ch = "9" -> 9

IsDigits(s) == Len(s) > 0 /\ \A i \in 1..Len(s) : s[i] \in Digits

RECURSIVE NumVal(_)
NumVal(s) ==
  IF Len(s) = 0 THEN 0 ELSE 10 * NumVal(SubSeq(s, 1, Len(s) - 1)) + DigitVal(s[Len(s)])

T_Infinity == <<"I", "n", "f", "i", "n", "i", "t", "y">>
T_true == <<"t", "r", "u", "e">>
T_false == <<"f", "a", "l", "s", "e">>
T_null == <<"n", "u", "l", "l">>
T_undefined == <<"u", "n", "d", "e", "f", "i", "n", "e", "d">>
T_NaN == <<"N", "a", "N">>

\* Number(text): whitespace-only text is 0, decimal digits are that number,
\* "Infinity" is Infinity, any other text of the model is NaN
ToNumber(s) ==
  LET t == Trim(s) IN
  IF Len(t) = 0 THEN VNum(0)
  ELSE IF IsDigits(t) THEN VNum(NumVal(t))
  ELSE IF t = T_Infinity THEN VInf
  ELSE VNaN

IsNaNValue(v) == v.t = "NaN"

\* ------------------------------------------------------------------------
\* eval('(' + code + ')') inside the context (part_001:84), for the literal
\* expressions of the model: keyword literals, the context globals
\* undefined / NaN / Infinity (part_001:272-275), decimal numbers, quoted
\* strings, flat array literals and {}.  Any other text is not an
\* expression of the model and throws (SyntaxError / ReferenceError).
\* ------------------------------------------------------------------------
IsQuotedBy(s, q) ==
  /\ Len(s) >= 2
  /\ s[1] = q
  /\ s[Len(s)] = q
  /\ \A i \in 2..(Len(s) - 1) : s[i] # q

Letters ==
  {"a", "b", "c", "d", "e", "f", "g", "h", "i", "j", "k", "l", "m", "n", "o", "p", "q",
   "r", "s", "t", "u", "v", "w", "x", "y", "z", "_"}

IsIdentifier(s) == Len(s) > 0 /\ \A i \in 1..Len(s) : s[i] \in Letters

\* an expression made of identifiers, decimal numbers, + and *
IsSimpleExpression(s) ==
  LET t == Trim(s) IN
  /\ Len(t) > 0
  /\ \A i \in 1..Len(t) : t[i] \in Letters \cup Digits \cup {"+", "*", " "}
  /\ t[1] \in Letters \cup Digits
  /\ t[Len(t)] \in Letters \cup Digits

\* offset of the first "=>" of s, 0 when it has none
ArrowAt(s) ==
  LET at == {i \in 1..(Len(s) - 1) : s[i] = "=" /\ s[i + 1] = ">"}
  IN IF at = {} THEN 0 ELSE CHOOSE i \in at : \A j \in at : i <= j

\* a parameter list: an identifier, or identifiers in parentheses
IsParameterList(s) ==
  LET t == Trim(s) IN
  \/ IsIdentifier(t)
  \/ /\ Len(t) >= 2 /\ t[1] = "(" /\ t[Len(t)] = ")"
     /\ \A i \in 2..(Len(t) - 1) : t[i] \in Letters \cup {",", " "}

\* the text is an arrow function with an expression body
IsArrowFunction(s) ==
  /\ ArrowAt(s) > 1
  /\ IsParameterList(SubSeq(s, 1, ArrowAt(s) - 1))
  /\ IsSimpleExpression(SubSeq(s, ArrowAt(s) + 2, Len(s)))

T_new == <<"n", "e", "w", " ">>

\* the constructors of the model that both realms define
Constructors == {<<"M", "a", "p">>, <<"S", "e", "t">>}

\* the text is `new C()` for a defined constructor C
IsConstruction(s) ==
  /\ StartsWith(s, T_new)
  /\ EndsWith(s, <<"(", ")">>)
  /\ SubSeq(s, 5, Len(s) - 2) \in Constructors

RECURSIVE EvalSeq(_, _)
RECURSIVE EvalExpr(_)
EvalExpr(code) ==
  LET c == Trim(code) IN
  IF c = T_true THEN Ok(VBool(TRUE))
  ELSE IF c = T_false THEN Ok(VBool(FALSE))
  ELSE IF c = T_null THEN Ok(VNull)
  ELSE IF c = T_undefined THEN Ok(VUndef)
  ELSE IF c = T_NaN THEN Ok(VNaN)
  ELSE IF c = T_Infinity THEN Ok(VInf)
  ELSE IF IsDigits(c) THEN Ok(VNum(NumVal(c)))
  ELSE IF IsQuotedBy(c, "'") \/ IsQuotedBy(c, "\"") THEN Ok(VStr(SliceInner(c)))
  ELSE IF c = <<"{", "}">> THEN Ok(VObj(<<>>))
  ELSE IF IsArrowFunction(c) THEN Ok(VFun("anonymous", VUndef))
  ELSE IF IsConstruction(c) THEN Ok(VObj(<<>>))
  ELSE IF Len(c) >= 2 /\ c[1] = "[" /\ c[Len(c)] = "]"
    THEN IF Len(Trim(SliceInner(c))) = 0
         THEN Ok(VArr(<<>>))
         ELSE EvalSeq(SplitComma(SliceInner(c)), <<>>)
  ELSE Thrown(VErr("SyntaxError"))

\* the elements of an array literal, left to right
EvalSeq(pieces, acc) ==
  IF Len(pieces) = 0 THEN Ok(VArr(acc))
  ELSE LET r == EvalExpr(pieces[1]) IN
       IF r.ok THEN EvalSeq(Tail(pieces), Append(acc, r.v))
       ELSE Thrown(VErr("SyntaxError"))

\* ------------------------------------------------------------------------
\* JSON.parse (part_001:94 and 165) for flat JSON texts
\* ------------------------------------------------------------------------
RECURSIVE JSONSeq(_, _)
RECURSIVE JSONMembers(_, _)
RECURSIVE JSONParse(_)
JSONParse(text) ==
  LET c == Trim(text) IN
  IF c = T_true THEN Ok(VBool(TRUE))
  ELSE IF c = T_false THEN Ok(VBool(FALSE))
  ELSE IF c = T_null THEN Ok(VNull)
  ELSE IF IsDigits(c) THEN Ok(VNum(NumVal(c)))
  ELSE IF IsQuotedBy(c, "\"") THEN Ok(VStr(SliceInner(c)))
  ELSE IF Len(c) >= 2 /\ c[1] = "[" /\ c[Len(c)] = "]"
    THEN IF Len(Trim(SliceInner(c))) = 0
         THEN Ok(VArr(<<>>))
         ELSE JSONSeq(SplitComma(SliceInner(c)), <<>>)
  ELSE IF Len(c) >= 2 /\ c[1] = "{" /\ c[Len(c)] = "}"
    THEN IF Len(Trim(SliceInner(c))) = 0
         THEN Ok(VObj(<<>>))
         ELSE JSONMembers(SplitComma(SliceInner(c)), <<>>)
  ELSE Thrown(VErr("SyntaxError"))

JSONSeq(pieces, acc) ==
  IF Len(pieces) = 0 THEN Ok(VArr(acc))
  ELSE LET r == JSONParse(pieces[1]) IN
       IF r.ok THEN JSONSeq(Tail(pieces), Append(acc, r.v))
       ELSE Thrown(VErr("SyntaxError"))

\* "key": value members; the key must be a double-quoted string
JSONMembers(pieces, acc) ==
  IF Len(pieces) = 0 THEN Ok(VObj(acc))
  ELSE LET m == Trim(pieces[1])
           hasColon == \E i \in 1..Len(m) : m[i] = ":"
           k == CHOOSE i \in 1..Len(m) : m[i] = ":" /\ \A j \in 1..(i - 1) : m[j] # ":"
       IN IF ~hasColon THEN Thrown(VErr("SyntaxError"))
          ELSE LET key == Trim(SubSeq(m, 1, k - 1))
                   r == JSONParse(SubSeq(m, k + 1, Len(m)))
               IN IF IsQuotedBy(key, "\"") /\ r.ok
                  THEN JSONMembers(Tail(pieces), Append(acc, <<SliceInner(key), r.v>>))
                  ELSE Thrown(VErr("SyntaxError"))

\* ------------------------------------------------------------------------
\* ts.transpileModule applied to an argument text (part_001:38-44, 210-220).
\* A text that opens with { is parsed as a block statement and printed with
\* each statement terminated by ';'; any other text is printed as an
\* expression statement terminated by ';'.  The output ends with a newline.
\* No "use strict" / __esModule prologue is printed for a text without
\* import or export.  transpileModule reports syntax errors as diagnostics
\* and does not throw.
\* ------------------------------------------------------------------------
transpileTypeScript(code) ==
  IF Len(code) >= 2 /\ code[1] = "{" /\ code[Len(code)] = "}"
  THEN <<"{", "\n">> \o Trim(SliceInner(code)) \o <<";", "\n", "}", "\n">>
  ELSE code \o <<";", "\n">>

\* .replace(/;\s*$/g, '') (part_001:77)
StripTrailingSemicolon(s) ==
  LET t == TrimRight(s) IN
  IF Len(t) > 0 /\ t[Len(t)] = ";" THEN SubSeq(t, 1, Len(t) - 1) ELSE s

\* part_001:66-80: the text handed to eval
CodeToEval(trimmed) ==
  IF Includes(trimmed, <<":">>) \/ Includes(trimmed, <<"i", "t", "e", "m", " ", "i", "s">>)
  THEN Trim(StripTrailingSemicolon(transpileTypeScript(trimmed)))
  ELSE trimmed

\* MaterialiseArg without the JSON.parse step
MaterialiseArg_NoJson(value) ==
  LET trimmed == Trim(value)
      evaluated == EvalExpr(CodeToEval(trimmed))
      num == ToNumber(trimmed)
  IN IF Len(trimmed) = 0 THEN Ok(VUndef)
     ELSE IF evaluated.ok THEN Ok(evaluated.v)
     ELSE IF ~IsNaNValue(num) THEN Ok(num)
     ELSE IF (StartsWith(trimmed, <<"\"">>) /\ EndsWith(trimmed, <<"\"">>))
             \/ (StartsWith(trimmed, <<"'">>) /\ EndsWith(trimmed, <<"'">>))
       THEN Ok(VStr(SliceInner(trimmed)))
     ELSE Ok(VStr(trimmed))

\* MaterialiseArg without the expression evaluation and the keyword step
MaterialiseArg_NoEval(value) ==
  LET trimmed == Trim(value)
      num == ToNumber(trimmed)
  IN IF Len(trimmed) = 0 THEN Ok(VUndef)
     ELSE IF ~IsNaNValue(num) THEN Ok(num)
     ELSE Ok(VStr(trimmed))

\* MaterialiseArg with the JSON.parse failure not caught
MaterialiseArg_JsonUncaught(value) ==
  LET trimmed == Trim(value)
      evaluated == EvalExpr(CodeToEval(trimmed))
      json == JSONParse(trimmed)
      num == ToNumber(trimmed)
  IN
  IF Len(trimmed) = 0 THEN Ok(VUndef)
  ELSE IF evaluated.ok THEN Ok(evaluated.v)
  ELSE IF StartsWith(trimmed, <<"{">>) \/ StartsWith(trimmed, <<"[">>)
    THEN (IF json.ok THEN Ok(json.v) ELSE Thrown(VErr("SyntaxError: Unexpected token")))
  ELSE IF ~IsNaNValue(num) THEN Ok(num)
  ELSE Ok(VStr(trimmed))

\* ------------------------------------------------------------------------
\* part_001:60-123: materialisation of one raw argument inside the context.
\* The result is Ok(value); no step lets an exception escape.
\* ------------------------------------------------------------------------
MaterialiseArg(value) ==
  LET trimmed == Trim(value)
      evaluated == EvalExpr(CodeToEval(trimmed))
      json == JSONParse(trimmed)
      num == ToNumber(trimmed)
  IN
  IF Len(trimmed) = 0 THEN Ok(VUndef)
  ELSE IF evaluated.ok THEN Ok(evaluated.v)
  ELSE IF (StartsWith(trimmed, <<"{">>) \/ StartsWith(trimmed, <<"[">>)) /\ json.ok
    THEN Ok(json.v)
  ELSE IF trimmed = T_true THEN Ok(VBool(TRUE))
  ELSE IF trimmed = T_false THEN Ok(VBool(FALSE))
  ELSE IF trimmed = T_null THEN Ok(VNull)
  ELSE IF trimmed = T_undefined THEN Ok(VUndef)
  ELSE IF trimmed = T_NaN THEN Ok(VNaN)
  ELSE IF trimmed = T_Infinity THEN Ok(VInf)
  ELSE IF ~IsNaNValue(num) THEN Ok(num)
  ELSE IF (StartsWith(trimmed, <<"\"">>) /\ EndsWith(trimmed, <<"\"">>))
          \/ (StartsWith(trimmed, <<"'">>) /\ EndsWith(trimmed, <<"'">>))
    THEN Ok(VStr(SliceInner(trimmed)))
  ELSE Ok(VStr(trimmed))

\* part_001:161-167: materialisation of one piece of the follow-up string
MaterialiseTestArg(arg) ==
  LET trimmed == Trim(arg)
      num == ToNumber(trimmed)
      json == JSONParse(trimmed)
  IN IF ~IsNaNValue(num) THEN num
     ELSE IF json.ok THEN json.v
     ELSE VStr(trimmed)

\* part_001:161: _testArgsStr.split(',').map(...)
ParseTestArgs(str) ==
  LET pieces == SplitComma(str)
  IN [i \in 1..Len(pieces) |-> MaterialiseTestArg(pieces[i])]

\* ------------------------------------------------------------------------
\* parseArgumentValue (part_001:320-494)
\* ------------------------------------------------------------------------
T_function == <<"f", "u", "n", "c", "t", "i", "o", "n">>
T_Date == <<"D", "a", "t", "e">>
T_itemIs == <<"i", "t", "e", "m", " ", "i", "s">>
T_arrow == <<"=", ">">>

VDate(text) == [t |-> "Date", s |-> text]

\* !isNaN(new Date(text).getTime()) for the texts of the model: a decimal
\* number is read as a date, the other texts are not
IsValidDate(text) == IsDigits(text)

\* the printed JavaScript of `const _temp = <text>;` (part_001:336-338,
\* 408-411): the parameter annotations are gone
RECURSIVE StripAnnotations(_, _)
StripAnnotations(s, inType) ==
  IF Len(s) = 0 THEN <<>>
  ELSE IF inType
    THEN (IF s[1] \in {",", ")"}
          THEN <<s[1]>> \o StripAnnotations(Tail(s), FALSE)
          ELSE StripAnnotations(Tail(s), TRUE))
  ELSE IF s[1] = ":" THEN StripAnnotations(Tail(s), TRUE)
  ELSE <<s[1]>> \o StripAnnotations(Tail(s), FALSE)

\* match[1] of /_temp = ([^;]+);/ on that output (part_001:343-346, 414-426)
ExtractTemp(text) ==
  LET js == StripAnnotations(text, FALSE)
      semis == {i \in 1..Len(js) : js[i] = ";"}
      first == IF semis = {} THEN Len(js) + 1 ELSE CHOOSE i \in semis : \A j \in semis : i <= j
  IN IF first = 1 THEN text ELSE SubSeq(js, 1, first - 1)

\* part_001:335-347, 406-435: the JavaScript text of an argument text
JsCode(trimmedValue) ==
  IF Includes(trimmedValue, <<":">>) \/ Includes(trimmedValue, T_itemIs)
  THEN ExtractTemp(trimmedValue)
  ELSE trimmedValue

\* part_001:449-456: jsCode.match(/\(([^)]*)\)\s*=>\s*(.+)/) and
\* new Function(params, `return ${body}`), reached when eval failed twice
NewFunction(jsCode) ==
  LET opens == {i \in 1..Len(jsCode) :
                  /\ jsCode[i] = "("
                  /\ \E k \in (i + 1)..Len(jsCode) :
                       /\ jsCode[k] = ")"
                       /\ \A j \in (i + 1)..(k - 1) : jsCode[j] # ")"
                       /\ ArrowAt(SubSeq(jsCode, k + 1, Len(jsCode))) > 0
                       /\ Len(Trim(SubSeq(jsCode, k + 1,
                                          k + ArrowAt(SubSeq(jsCode, k + 1, Len(jsCode))) - 1))) = 0
                       /\ Len(Trim(SubSeq(jsCode,
                                          k + ArrowAt(SubSeq(jsCode, k + 1, Len(jsCode))) + 2,
                                          Len(jsCode)))) > 0}
      i == CHOOSE x \in opens : \A y \in opens : x <= y
      k == CHOOSE x \in (i + 1)..Len(jsCode) :
             jsCode[x] = ")" /\ \A j \in (i + 1)..(x - 1) : jsCode[j] # ")"
      body == SubSeq(jsCode, k + ArrowAt(SubSeq(jsCode, k + 1, Len(jsCode))) + 2, Len(jsCode))
  IN IF opens = {} THEN Ok(VUndef)
     ELSE IF IsParameterList(SubSeq(jsCode, i, k)) /\ IsSimpleExpression(body)
       THEN Ok(VFun("anonymous", VUndef))
     ELSE Thrown(VErr("SyntaxError"))

\* part_001:396-471: the function step, for a function-typed parameter
FunctionStep(trimmedValue) ==
  IF Includes(trimmedValue, T_arrow) \/ StartsWith(trimmedValue, T_function)
  THEN LET jsCode == JsCode(trimmedValue)
           e1 == EvalExpr(jsCode)
           func == IF e1.ok THEN e1 ELSE NewFunction(jsCode)
       IN IF func.ok /\ IsCallable(func.v) THEN func ELSE Ok(VNull)
  ELSE Ok(VNull)

IsFunctionType(type) ==
  Includes(type, T_arrow) \/ StartsWith(type, <<"(">>) \/ Includes(type, T_itemIs)

\* part_001:328-489: the steps inside the try block; Thrown is what reaches
\* the catch at 490
CoercionSteps(trimmedValue, type) ==
  LET isFunctionArray ==
        /\ StartsWith(trimmedValue, <<"[">>)
        /\ Includes(trimmedValue, T_arrow) \/ Includes(trimmedValue, T_function)
      evaluated == EvalExpr(JsCode(trimmedValue))
      num == ToNumber(trimmedValue)
  IN
  IF isFunctionArray /\ evaluated.ok THEN evaluated
  ELSE IF StartsWith(trimmedValue, <<"{">>) \/ StartsWith(trimmedValue, <<"[">>)
    THEN JSONParse(trimmedValue)
  ELSE IF trimmedValue = T_true THEN Ok(VBool(TRUE))
  ELSE IF trimmedValue = T_false THEN Ok(VBool(FALSE))
  ELSE IF trimmedValue = T_null THEN Ok(VNull)
  ELSE IF trimmedValue = T_undefined THEN Ok(VUndef)
  ELSE IF trimmedValue = T_NaN THEN Ok(VNaN)
  ELSE IF trimmedValue = T_Infinity THEN Ok(VInf)
  ELSE IF Includes(type, T_Date) /\ IsValidDate(trimmedValue) THEN Ok(VDate(trimmedValue))
  ELSE IF StartsWith(trimmedValue, T_new)
    THEN (IF EvalExpr(trimmedValue).ok THEN EvalExpr(trimmedValue) ELSE Ok(VNull))
  ELSE IF IsFunctionType(type) THEN FunctionStep(trimmedValue)
  ELSE IF ~IsNaNValue(num) THEN Ok(num)
  ELSE IF (StartsWith(trimmedValue, <<"\"">>) /\ EndsWith(trimmedValue, <<"\"">>))
          \/ (StartsWith(trimmedValue, <<"'">>) /\ EndsWith(trimmedValue, <<"'">>))
    THEN Ok(VStr(SliceInner(trimmedValue)))
  ELSE Ok(VStr(trimmedValue))

\* parseArgumentValue without the catch at part_001:490
parseArgumentValue_Uncaught(value, type) ==
  IF Len(Trim(value)) = 0 THEN Ok(VUndef) ELSE CoercionSteps(Trim(value), type)

\* part_001:320-494
parseArgumentValue(value, type) ==
  LET trimmedValue == Trim(value)
      r == CoercionSteps(trimmedValue, type)
  IN IF Len(value) = 0 \/ Len(trimmedValue) = 0 THEN Ok(VUndef)
     ELSE IF r.ok THEN r
     ELSE Ok(VStr(trimmedValue))

\* ------------------------------------------------------------------------
\* The document under test: its top-level declarations as token sequences.
\* ------------------------------------------------------------------------
\* function add(a: number, b: number) { return a + b }
D_add ==
  <<"function", "add", "(", "a", ":", "number", ",", "b", ":", "number", ")", "{",
    "return", "a", "+", "b", "}">>
D_pair ==
  <<"function", "pair", "(", "a", ",", "b", ")", "{", "return", "[", "a", ",", "b", "]", "}">>
D_createMultiplier ==
  <<"function", "createMultiplier", "(", "factor", ")", "{",
    "return", "x", "=>", "x", "*", "factor", "}">>
D_sum ==
  <<"function", "sum", "(", "...", "nums", ")", "{",
    "return", "nums", ".", "reduce", "(", "plus", ",", "0", ")", "}">>
D_first ==
  <<"function", "first", "(", "arr", ")", "{",
    "return", "[", "...", "arr", "]", "[", "0", "]", "}">>
D_boom ==
  <<"function", "boom", "(", ")", "{", "throw", "new", "Error", "(", "'boom'", ")", "}">>
D_throwNull ==
  <<"function", "throwNull", "(", ")", "{", "throw", "null", "}">>
D_bump ==
  <<"function", "bump", "(", ")", "{",
    "Math", ".", "counter", "=", "(", "Math", ".", "counter", "||", "0", ")", "+", "1", ";",
    "return", "Math", ".", "counter", "}">>
D_later ==
  <<"function", "later", "(", ")", "{",
    "return", "Promise", ".", "resolve", "(", "x", "=>", "x", "*", "2", ")", "}">>
D_asyncMaker ==
  <<"async", "function", "asyncMaker", "(", "factor", ")", "{",
    "return", "x", "=>", "x", "*", "factor", "}">>
D_rejecter ==
  <<"function", "rejecter", "(", ")", "{",
    "return", "Promise", ".", "reject", "(", "new", "Error", "(", "'no'", ")", ")", "}">>
D_makeThrower ==
  <<"function", "makeThrower", "(", ")", "{",
    "return", "(", ")", "=>", "{", "throw", "new", "Error", "(", "'inner'", ")", "}", "}">>
D_asyncFail ==
  <<"async", "function", "asyncFail", "(", ")", "{",
    "throw", "new", "Error", "(", "'afail'", ")", "}">>
D_rejectNull ==
  <<"function", "rejectNull", "(", ")", "{",
    "return", "Promise", ".", "reject", "(", "null", ")", "}">>
D_noop ==
  <<"function", "noop", "(", ")", "{", "}">>
D_nothing ==
  <<"function", "nothing", "(", ")", "{", "return", "null", "}">>
D_curry ==
  <<"function", "curry", "(", "a", ")", "{",
    "return", "b", "=>", "c", "=>", "a", "+", "b", "+", "c", "}">>
D_logger ==
  <<"function", "logger", "(", ")", "{", "return", "msg", "=>", "{", "}", "}">>
\* function ring() { const o = {}; o.self = o; return o }
D_ring ==
  <<"function", "ring", "(", ")", "{", "const", "o", "=", "{", "}", ";",
    "o", ".", "self", "=", "o", ";", "return", "o", "}">>
\* function bare() { const o = Object.create(null); o.self = o; return o }
D_bare ==
  <<"function", "bare", "(", ")", "{", "const", "o", "=",
    "Object", ".", "create", "(", "null", ")", ";",
    "o", ".", "self", "=", "o", ";", "return", "o", "}">>
\* a promise that never settles
D_hang ==
  <<"function", "hang", "(", ")", "{",
    "return", "new", "Promise", "(", "(", ")", "=>", "{", "}", ")", "}">>
\* const dbl = (x) => x * 2;
D_dbl ==
  <<"const", "dbl", "=", "(", "x", ")", "=>", "x", "*", "2", ";">>
\* class Counter { constructor(n) { this.n = n } inc(k) { return this.n + k } }
D_Counter ==
  <<"class", "Counter", "{",
    "constructor", "(", "n", ")", "{", "this", ".", "n", "=", "n", "}",
    "inc", "(", "k", ")", "{", "return", "this", ".", "n", "+", "k", "}",
    "}">>

Decls ==
  <<D_add, D_pair, D_createMultiplier, D_sum, D_first, D_boom, D_throwNull, D_bump,
    D_later, D_asyncMaker, D_rejecter, D_makeThrower, D_dbl, D_Counter, D_asyncFail,
    D_rejectNull, D_noop, D_nothing, D_curry, D_logger, D_hang, D_ring, D_bare>>

\* the document text: the declarations, one per line
RECURSIVE JoinLines(_)
JoinLines(ds) ==
  IF Len(ds) = 0 THEN <<>> ELSE ds[1] \o <<"\n">> \o JoinLines(Tail(ds))

DocText == JoinLines(Decls)

\* offset (1-based) of the first token of declaration i in DocText
RECURSIVE DeclStart(_)
DeclStart(i) == IF i = 1 THEN 1 ELSE DeclStart(i - 1) + Len(Decls[i - 1]) + 1
DeclEnd(i) == DeclStart(i) + Len(Decls[i]) - 1

Param(name, type, rest) == [name |-> name, type |-> type, optional |-> FALSE, rest |-> rest]

FunctionNode(i, name, params, async) ==
  [kind |-> "FunctionDeclaration", name |-> name, pos |-> DeclStart(i), end |-> DeclEnd(i),
   parameters |-> params, returnType |-> "any", async |-> async, body |-> <<>>]

\* The syntax tree ts.createSourceFile builds for DocText (codeParser.ts:35-40):
\* the top-level statements, in document order.
DocNodes ==
  <<FunctionNode(1, "add", <<Param("a", "number", FALSE), Param("b", "number", FALSE)>>, FALSE),
    FunctionNode(2, "pair", <<Param("a", "any", FALSE), Param("b", "any", FALSE)>>, FALSE),
    FunctionNode(3, "createMultiplier", <<Param("factor", "number", FALSE)>>, FALSE),
    FunctionNode(4, "sum", <<Param("nums", "number[]", TRUE)>>, FALSE),
    FunctionNode(5, "first", <<Param("arr", "any[]", FALSE)>>, FALSE),
    FunctionNode(6, "boom", <<>>, FALSE),
    FunctionNode(7, "throwNull", <<>>, FALSE),
    FunctionNode(8, "bump", <<>>, FALSE),
    FunctionNode(9, "later", <<>>, FALSE),
    FunctionNode(10, "asyncMaker", <<Param("factor", "number", FALSE)>>, TRUE),
    FunctionNode(11, "rejecter", <<>>, FALSE),
    FunctionNode(12, "makeThrower", <<>>, FALSE),
    [kind |-> "VariableStatement", pos |-> DeclStart(13), end |-> DeclEnd(13),
     declarations |->
       <<[name |-> "dbl", pos |-> DeclStart(13) + 1, end |-> DeclEnd(13) - 1,
          initializer |-> "ArrowFunction", parameters |-> <<Param("x", "number", FALSE)>>,
          returnType |-> "any", async |-> FALSE, body |-> <<>>]>>],
    [kind |-> "ClassDeclaration", name |-> "Counter", pos |-> DeclStart(14), end |-> DeclEnd(14),
     members |->
       <<[kind |-> "Constructor", pos |-> DeclStart(14) + 3, end |-> DeclStart(14) + 13,
          parameters |-> <<Param("n", "number", FALSE)>>, body |-> <<>>],
         [kind |-> "MethodDeclaration", name |-> "inc", pos |-> DeclStart(14) + 14,
          end |-> DeclStart(14) + 25, parameters |-> <<Param("k", "number", FALSE)>>,
          returnType |-> "any", async |-> FALSE, body |-> <<>>]>>],
    FunctionNode(15, "asyncFail", <<>>, TRUE),
    FunctionNode(16, "rejectNull", <<>>, FALSE),
    FunctionNode(17, "noop", <<>>, FALSE),
    FunctionNode(18, "nothing", <<>>, FALSE),
    FunctionNode(19, "curry", <<Param("a", "any", FALSE)>>, FALSE),
    FunctionNode(20, "logger", <<>>, FALSE),
    FunctionNode(21, "hang", <<>>, FALSE),
    FunctionNode(22, "ring", <<>>, FALSE),
    FunctionNode(23, "bare", <<>>, FALSE)>>

\* the document of the requests: DocText and its syntax tree
MainFile == [text |-> DocText, statements |-> DocNodes, parseDiagnostics |-> 0]

\* ------------------------------------------------------------------------
\* Other documents of the editor: sequences of the statements below.  Each
\* statement is given with the part of the syntax tree ts.createSourceFile
\* builds for it (positions relative to the statement's first token).
\* ------------------------------------------------------------------------
MaxStatements == 2

\* function f() { return 1 }
S_f ==
  [text |-> <<"function", "f", "(", ")", "{", "return", "1", "}">>,
   nodes |-> <<[kind |-> "FunctionDeclaration", name |-> "f", pos |-> 1, end |-> 8,
                parameters |-> <<>>, returnType |-> "any", async |-> FALSE, body |-> <<>>]>>,
   diagnostics |-> 0]

\* async function g(x) { return x }
S_g ==
  [text |-> <<"async", "function", "g", "(", "x", ")", "{", "return", "x", "}">>,
   nodes |-> <<[kind |-> "FunctionDeclaration", name |-> "g", pos |-> 1, end |-> 10,
                parameters |-> <<Param("x", "any", FALSE)>>, returnType |-> "any",
                async |-> TRUE, body |-> <<>>]>>,
   diagnostics |-> 0]

\* function outer() {
\*   function inner() { return 1 }
\*   return inner }
S_outer ==
  [text |-> <<"function", "outer", "(", ")", "{", "\n",
              "function", "inner", "(", ")", "{", "return", "1", "}", "\n",
              "return", "inner", "}">>,
   nodes |-> <<[kind |-> "FunctionDeclaration", name |-> "outer", pos |-> 1, end |-> 18,
                parameters |-> <<>>, returnType |-> "any", async |-> FALSE,
                body |-> <<[kind |-> "FunctionDeclaration", name |-> "inner",
                            pos |-> 7, end |-> 14, parameters |-> <<>>,
                            returnType |-> "any", async |-> FALSE, body |-> <<>>]>>]>>,
   diagnostics |-> 0]

\* function wrap() {
\*   const h = () => 1;
\*   return h }
S_wrap ==
  [text |-> <<"function", "wrap", "(", ")", "{", "\n",
              "const", "h", "=", "(", ")", "=>", "1", ";", "\n",
              "return", "h", "}">>,
   nodes |-> <<[kind |-> "FunctionDeclaration", name |-> "wrap", pos |-> 1, end |-> 18,
                parameters |-> <<>>, returnType |-> "any", async |-> FALSE,
                body |-> <<[kind |-> "VariableStatement", pos |-> 7, end |-> 14,
                            declarations |->
                              <<[name |-> "h", pos |-> 8, end |-> 13,
                                 initializer |-> "ArrowFunction", parameters |-> <<>>,
                                 returnType |-> "any", async |-> FALSE,
                                 body |-> <<>>]>>]>>]>>,
   diagnostics |-> 0]

\* const sq = (x) => x * x, n = 5;
S_sq ==
  [text |-> <<"const", "sq", "=", "(", "x", ")", "=>", "x", "*", "x", ",",
              "n", "=", "5", ";">>,
   nodes |-> <<[kind |-> "VariableStatement", pos |-> 1, end |-> 15,
                declarations |->
                  <<[name |-> "sq", pos |-> 2, end |-> 10,
                     initializer |-> "ArrowFunction",
                     parameters |-> <<Param("x", "any", FALSE)>>,
                     returnType |-> "any", async |-> FALSE, body |-> <<>>],
                    [name |-> "n", pos |-> 12, end |-> 14,
                     initializer |-> "NumericLiteral", parameters |-> <<>>,
                     returnType |-> "any", async |-> FALSE, body |-> <<>>]>>]>>,
   diagnostics |-> 0]

\* const k = () => {
\*   function deep() { }
\* }, z = () => 0;
S_k ==
  [text |-> <<"const", "k", "=", "(", ")", "=>", "{", "\n",
              "function", "deep", "(", ")", "{", "}", "\n",
              "}", ",", "z", "=", "(", ")", "=>", "0", ";">>,
   nodes |-> <<[kind |-> "VariableStatement", pos |-> 1, end |-> 24,
                declarations |->
                  <<[name |-> "k", pos |-> 2, end |-> 16,
                     initializer |-> "ArrowFunction", parameters |-> <<>>,
                     returnType |-> "any", async |-> FALSE,
                     body |-> <<[kind |-> "FunctionDeclaration", name |-> "deep",
                                 pos |-> 9, end |-> 14, parameters |-> <<>>,
                                 returnType |-> "any", async |-> FALSE, body |-> <<>>]>>],
                    [name |-> "z", pos |-> 18, end |-> 23,
                     initializer |-> "ArrowFunction", parameters |-> <<>>,
                     returnType |-> "any", async |-> FALSE, body |-> <<>>]>>]>>,
   diagnostics |-> 0]

\* class P {
\*   constructor(x) { this.x = x }
\*   a() {
\*     function inner2() { return 2 }
\*     return inner2() }
\*   b() { return 3 }
\* }
S_P ==
  [text |-> <<"class", "P", "{", "\n",
              "constructor", "(", "x", ")", "{", "this", ".", "x", "=", "x", "}", "\n",
              "a", "(", ")", "{", "\n",
              "function", "inner2", "(", ")", "{", "return", "2", "}", "\n",
              "return", "inner2", "(", ")", "}", "\n",
              "b", "(", ")", "{", "return", "3", "}", "\n",
              "}">>,
   nodes |-> <<[kind |-> "ClassDeclaration", name |-> "P", pos |-> 1, end |-> 45,
                members |->
                  <<[kind |-> "Constructor", pos |-> 5, end |-> 15,
                     parameters |-> <<Param("x", "any", FALSE)>>, body |-> <<>>],
                    [kind |-> "MethodDeclaration", name |-> "a", pos |-> 17, end |-> 35,
                     parameters |-> <<>>, returnType |-> "any", async |-> FALSE,
                     body |-> <<[kind |-> "FunctionDeclaration", name |-> "inner2",
                                 pos |-> 22, end |-> 29, parameters |-> <<>>,
                                 returnType |-> "any", async |-> FALSE, body |-> <<>>]>>],
                    [kind |-> "MethodDeclaration", name |-> "b", pos |-> 37, end |-> 43,
                     parameters |-> <<>>, returnType |-> "any", async |-> FALSE,
                     body |-> <<>>]>>]>>,
   diagnostics |-> 0]

\* class Q {
\*   m() { return 0 }
\* }
S_Q ==
  [text |-> <<"class", "Q", "{", "\n", "m", "(", ")", "{", "return", "0", "}", "\n", "}">>,
   nodes |-> <<[kind |-> "ClassDeclaration", name |-> "Q", pos |-> 1, end |-> 13,
                members |->
                  <<[kind |-> "MethodDeclaration", name |-> "m", pos |-> 5, end |-> 11,
                     parameters |-> <<>>, returnType |-> "any", async |-> FALSE,
                     body |-> <<>>]>>]>>,
   diagnostics |-> 0]

\* class E { constructor() { } }
S_E ==
  [text |-> <<"class", "E", "{", "constructor", "(", ")", "{", "}", "}">>,
   nodes |-> <<[kind |-> "ClassDeclaration", name |-> "E", pos |-> 1, end |-> 9,
                members |->
                  <<[kind |-> "Constructor", pos |-> 4, end |-> 8,
                     parameters |-> <<>>, body |-> <<>>]>>]>>,
   diagnostics |-> 0]

\* a closing brace without an opening one.  The parser of the TypeScript
\* library recovers from a syntax error: it records a diagnostic
\* ("Declaration or statement expected"), skips the token and goes on, so
\* the statement list has no node for this line.
S_stray ==
  [text |-> <<"}">>, nodes |-> <<>>, diagnostics |-> 1]

Snippets == <<S_f, S_g, S_outer, S_wrap, S_sq, S_k, S_P, S_Q, S_E, S_stray>>

\* a node moved k tokens to the right, with the nodes below it
RECURSIVE Shift(_, _)
Shift(n, k) ==
  LET m == [n EXCEPT !.pos = @ + k, !.end = @ + k]
  IN IF "members" \in DOMAIN n
       THEN [m EXCEPT !.members = [i \in 1..Len(n.members) |-> Shift(n.members[i], k)]]
     ELSE IF "declarations" \in DOMAIN n
       THEN [m EXCEPT !.declarations =
                        [i \in 1..Len(n.declarations) |-> Shift(n.declarations[i], k)]]
     ELSE [m EXCEPT !.body = [i \in 1..Len(n.body) |-> Shift(n.body[i], k)]]

\* the source file made of the statements ixs (indices into Snippets), one
\* per line, that follows off tokens of text
RECURSIVE BuildFile(_, _)
BuildFile(ixs, off) ==
  IF Len(ixs) = 0 THEN [text |-> <<>>, statements |-> <<>>, parseDiagnostics |-> 0]
  ELSE LET s == Snippets[ixs[1]]
           rest == BuildFile(Tail(ixs), off + Len(s.text) + 1)
       IN [text |-> s.text \o <<"\n">> \o rest.text,
           statements |-> [i \in 1..Len(s.nodes) |-> Shift(s.nodes[i], off)]
                          \o rest.statements,
           parseDiagnostics |-> s.diagnostics + rest.parseDiagnostics]

\* the statement lists of the documents
Outlines == UNION {[1..n -> 1..Len(Snippets)] : n \in 0..MaxStatements}

\* function f() { return 1 }
\* function hang() { return new Promise(() => {}) }
HangFile ==
  LET first == BuildFile(<<1>>, 0)
      off == Len(first.text)
  IN [text |-> first.text \o D_hang \o <<"\n">>,
      statements |-> first.statements \o
        <<[kind |-> "FunctionDeclaration", name |-> "hang", pos |-> off + 1,
           end |-> off + Len(D_hang), parameters |-> <<>>, returnType |-> "any",
           async |-> FALSE, body |-> <<>>]>>,
      parseDiagnostics |-> 0]

\* class R {
\*   n(x) { return x }
\* }
RFile ==
  [text |-> <<"class", "R", "{", "\n", "n", "(", "x", ")", "{", "return", "x", "}", "\n",
              "}", "\n">>,
   statements |->
     <<[kind |-> "ClassDeclaration", name |-> "R", pos |-> 1, end |-> 14,
        members |->
          <<[kind |-> "MethodDeclaration", name |-> "n", pos |-> 5, end |-> 12,
             parameters |-> <<Param("x", "any", FALSE)>>, returnType |-> "any",
             async |-> FALSE, body |-> <<>>]>>]>>,
   parseDiagnostics |-> 0]

\* every source file of the model
SourceFiles == {MainFile, HangFile, RFile} \cup {BuildFile(ixs, 0) : ixs \in Outlines}

\* ts.createSourceFile(fileName, sourceCode, ...), codeParser.ts:35-40: the
\* syntax tree of the text.  It does not throw on a text with syntax
\* errors; they are recorded in parseDiagnostics, which parseFunctions does
\* not read.
createSourceFile(sourceCode) == CHOOSE f \in SourceFiles : f.text = sourceCode

\* ------------------------------------------------------------------------
\* CodeParser (codeParser.ts)
\* ------------------------------------------------------------------------
\* node.getText(sourceFile): the slice of the document the node spans
GetText(node, sourceFile) == SubSeq(sourceFile.text, node.pos, node.end)

\* sourceFile.getLineAndCharacterOfPosition(p).line (0-based)
LineOfPosition(sourceFile, p) ==
  Cardinality({i \in 1..(p - 1) : sourceFile.text[i] = "\n"})

\* codeParser.ts:149-155, 186-191, 218-223
extractParameters(node) ==
  [i \in 1..Len(node.parameters) |->
     [name |-> node.parameters[i].name, type |-> node.parameters[i].type,
      optional |-> node.parameters[i].optional]]

\* codeParser.ts:93-111
extractFunctionInfo(node, sourceFile) ==
  [name |-> <<node.name>>,
   parameters |-> extractParameters(node),
   returnType |-> node.returnType,
   startLine |-> LineOfPosition(sourceFile, node.pos) + 1,
   endLine |-> LineOfPosition(sourceFile, node.end) + 1,
   fullText |-> GetText(node, sourceFile),
   isAsync |-> node.async,
   isClass |-> FALSE,
   className |-> ""]

\* codeParser.ts:116-143
extractFunctionFromVariable(declaration, sourceFile) ==
  [name |-> <<declaration.name>>,
   parameters |-> extractParameters(declaration),
   returnType |-> declaration.returnType,
   startLine |-> LineOfPosition(sourceFile, declaration.pos) + 1,
   endLine |-> LineOfPosition(sourceFile, declaration.end) + 1,
   fullText |-> GetText(declaration, sourceFile),
   isAsync |-> declaration.async,
   isClass |-> FALSE,
   className |-> ""]

\* codeParser.ts:178-207
extractClassInfo(node, sourceFile, className) ==
  LET ctors == {i \in 1..Len(node.members) : node.members[i].kind = "Constructor"}
      ctor == node.members[CHOOSE i \in ctors : \A j \in ctors : i <= j]
  IN [name |-> <<className>>,
      parameters |-> IF ctors = {} THEN <<>> ELSE extractParameters(ctor),
      returnType |-> className,
      startLine |-> LineOfPosition(sourceFile, node.pos) + 1,
      endLine |-> LineOfPosition(sourceFile, node.end) + 1,
      fullText |-> GetText(node, sourceFile),
      isAsync |-> FALSE,
      isClass |-> TRUE,
      className |-> ""]

\* codeParser.ts:212-240; the name is `${className}.${name}`
extractMethodInfo(node, sourceFile, className) ==
  [name |-> <<className, ".", node.name>>,
   parameters |-> extractParameters(node),
   returnType |-> node.returnType,
   startLine |-> LineOfPosition(sourceFile, node.pos) + 1,
   endLine |-> LineOfPosition(sourceFile, node.end) + 1,
   fullText |-> GetText(node, sourceFile),
   isAsync |-> node.async,
   isClass |-> FALSE,
   className |-> className]

\* codeParser.ts:51-60
RECURSIVE VisitDeclarations(_, _)
VisitDeclarations(decls, sourceFile) ==
  IF Len(decls) = 0 THEN <<>>
  ELSE (IF decls[1].initializer \in {"ArrowFunction", "FunctionExpression"}
        THEN <<extractFunctionFromVariable(decls[1], sourceFile)>> ELSE <<>>)
       \o VisitDeclarations(Tail(decls), sourceFile)

\* codeParser.ts:73-80
RECURSIVE VisitMembers(_, _, _)
VisitMembers(members, sourceFile, className) ==
  IF Len(members) = 0 THEN <<>>
  ELSE (IF members[1].kind = "MethodDeclaration"
        THEN <<extractMethodInfo(members[1], sourceFile, className)>> ELSE <<>>)
       \o VisitMembers(Tail(members), sourceFile, className)

\* the statements inside the bodies of a class's members or of a variable
\* statement's initializers, in document order
RECURSIVE Bodies(_)
Bodies(nodes) == IF Len(nodes) = 0 THEN <<>> ELSE nodes[1].body \o Bodies(Tail(nodes))

\* ts.forEachChild(node, visit), codeParser.ts:83: the child nodes that can
\* hold a declaration
Children(node) ==
  IF node.kind = "VariableStatement" THEN Bodies(node.declarations)
  ELSE IF node.kind = "ClassDeclaration" THEN Bodies(node.members)
  ELSE node.body

RECURSIVE Visit(_, _), VisitAll(_, _)

\* Visit that appends a class's methods after the descriptors of the
\* declarations nested in its members
Visit_ChildrenFirst(node, sourceFile) ==
  IF node.kind = "ClassDeclaration" /\ node.name # ""
  THEN <<extractClassInfo(node, sourceFile, node.name)>>
       \o VisitAll(Children(node), sourceFile)
       \o VisitMembers(node.members, sourceFile, node.name)
  ELSE (IF node.kind = "FunctionDeclaration" /\ node.name # ""
          THEN <<extractFunctionInfo(node, sourceFile)>>
        ELSE IF node.kind = "VariableStatement"
          THEN VisitDeclarations(node.declarations, sourceFile)
        ELSE <<>>)
       \o VisitAll(Children(node), sourceFile)

\* codeParser.ts:44-84: the descriptors of the node itself, then those of
\* its children
Visit(node, sourceFile) ==
  (IF node.kind = "FunctionDeclaration" /\ node.name # ""
     THEN <<extractFunctionInfo(node, sourceFile)>>
   ELSE IF node.kind = "VariableStatement"
     THEN VisitDeclarations(node.declarations, sourceFile)
   ELSE IF node.kind = "ClassDeclaration" /\ node.name # ""
     THEN <<extractClassInfo(node, sourceFile, node.name)>>
          \o VisitMembers(node.members, sourceFile, node.name)
   ELSE <<>>)
  \o VisitAll(Children(node), sourceFile)

\* VisitAll that puts the descriptors of a later statement first
VisitAll_LastFirst(nodes, sourceFile) ==
  IF Len(nodes) = 0 THEN <<>>
  ELSE VisitAll(Tail(nodes), sourceFile) \o Visit(nodes[1], sourceFile)

\* codeParser.ts:83 and 86: the nodes of a list, in order
VisitAll(nodes, sourceFile) ==
  IF Len(nodes) = 0 THEN <<>>
  ELSE Visit(nodes[1], sourceFile) \o VisitAll(Tail(nodes), sourceFile)

\* parseFunctions that does not descend into the bodies of the statements
parseFunctions_TopLevelOnly(sourceCode) ==
  LET sourceFile == createSourceFile(sourceCode)
      flat == [i \in 1..Len(sourceFile.statements) |->
                 IF "body" \in DOMAIN sourceFile.statements[i]
                 THEN [sourceFile.statements[i] EXCEPT !.body = <<>>]
                 ELSE sourceFile.statements[i]]
  IN VisitAll(flat, sourceFile)

\* codeParser.ts:34-88
parseFunctions(sourceCode) ==
  LET sourceFile == createSourceFile(sourceCode)
  IN VisitAll(sourceFile.statements, sourceFile)

\* ------------------------------------------------------------------------
\* Semantics of the user code of the document (what the script engine does
\* when it runs a declaration and when it calls one of its functions)
\* ------------------------------------------------------------------------
\* script.runInContext(context) on a transpiled declaration text
\* (part_001:52-54): the global binding the text creates, or the exception
\* it raises.  `name = <arrow function>` binds a global in sloppy mode; a
\* bare method text `m(..) { return .. }` is not a program.
RunScript(code) ==
  IF Len(code) >= 2 /\ code[1] = "function"
    THEN Ok([name |-> code[2], kind |-> "function", text |-> code])
  ELSE IF Len(code) >= 3 /\ code[1] = "async" /\ code[2] = "function"
    THEN Ok([name |-> code[3], kind |-> "function", text |-> code])
  ELSE IF Len(code) >= 2 /\ code[1] = "class"
    THEN Ok([name |-> code[2], kind |-> "class", text |-> code])
  ELSE IF Len(code) >= 3 /\ code[2] = "="
    THEN Ok([name |-> code[1], kind |-> "function", text |-> SubSeq(code, 3, Len(code))])
  ELSE Thrown(VErr("SyntaxError: Illegal return statement"))

Arg(args, i) == IF i <= Len(args) THEN args[i] ELSE VUndef

\* a + b and a * b on the numbers of the model
Plus(a, b) == IF a.t = "number" /\ b.t = "number" THEN VNum(a.n + b.n) ELSE VNaN
Times(a, b) == IF a.t = "number" /\ b.t = "number" THEN VNum(a.n * b.n) ELSE VNaN

RECURSIVE SumArgs(_)
SumArgs(args) == IF Len(args) = 0 THEN VNum(0) ELSE Plus(args[1], SumArgs(Tail(args)))

\* The body of function f applied to args, with closure value env and the
\* host's Math.counter equal to host: the completion and the new counter.
CallBody(f, env, args, host) ==
  CASE f = "add" -> [r |-> Ok(Plus(Arg(args, 1), Arg(args, 2))), host |-> host]
    [] f = "pair" -> [r |-> Ok(VArr(<<Arg(args, 1), Arg(args, 2)>>)), host |-> host]
    [] f = "createMultiplier" -> [r |-> Ok(VFun("multiplier", Arg(args, 1))), host |-> host]
    [] f = "multiplier" -> [r |-> Ok(Times(Arg(args, 1), env)), host |-> host]
    [] f = "sum" -> [r |-> Ok(SumArgs(args)), host |-> host]
    [] f = "first" ->
         [r |-> IF IsArray(Arg(args, 1))
                THEN Ok(Arg(Arg(args, 1).a, 1))
                ELSE Thrown(VErr("TypeError: arr is not iterable")),
          host |-> host]
    [] f = "boom" -> [r |-> Thrown(VErr("boom")), host |-> host]
    [] f = "throwNull" -> [r |-> Thrown(VNull), host |-> host]
    [] f = "bump" -> [r |-> Ok(VNum(host + 1)), host |-> host + 1]
    [] f = "later" ->
         [r |-> Ok(VPromise("resolved", VFun("doubler", VUndef))), host |-> host]
    [] f = "doubler" -> [r |-> Ok(Times(Arg(args, 1), VNum(2))), host |-> host]
    [] f = "dbl" -> [r |-> Ok(Times(Arg(args, 1), VNum(2))), host |-> host]
    [] f = "asyncMaker" ->
         [r |-> Ok(VPromise("resolved", VFun("multiplier", Arg(args, 1)))), host |-> host]
    [] f = "rejecter" -> [r |-> Ok(VPromise("rejected", VErr("no"))), host |-> host]
    [] f = "makeThrower" -> [r |-> Ok(VFun("thrower", VUndef)), host |-> host]
    [] f = "thrower" -> [r |-> Thrown(VErr("inner")), host |-> host]
    [] f = "rejectNull" -> [r |-> Ok(VPromise("rejected", VNull)), host |-> host]
    [] f = "asyncFail" -> [r |-> Ok(VPromise("rejected", VErr("afail"))), host |-> host]
    [] f = "noop" -> [r |-> Ok(VUndef), host |-> host]
    [] f = "nothing" -> [r |-> Ok(VNull), host |-> host]
    [] f = "curry" -> [r |-> Ok(VFun("curry1", Arg(args, 1))), host |-> host]
    [] f = "curry1" -> [r |-> Ok(VFun("curry2", Plus(env, Arg(args, 1)))), host |-> host]
    [] f = "curry2" -> [r |-> Ok(Plus(env, Arg(args, 1))), host |-> host]
    [] f = "logger" -> [r |-> Ok(VFun("log", VUndef)), host |-> host]
    [] f = "log" -> [r |-> Ok(VUndef), host |-> host]
    [] f = "hang" -> [r |-> Ok(VPromise("pending", VUndef)), host |-> host]
    [] f = "f" -> [r |-> Ok(VNum(1)), host |-> host]
    [] f = "g" -> [r |-> Ok(VPromise("resolved", Arg(args, 1))), host |-> host]
    [] f = "ring" -> [r |-> Ok(VCyclic("Object")), host |-> host]
    [] f = "bare" -> [r |-> Ok(VCyclic("null")), host |-> host]

\* ------------------------------------------------------------------------
\* CodeExecutor (part_001)
\* ------------------------------------------------------------------------
\* part_001:210-220 applied to a declaration (part_001:32): the printed
\* JavaScript is the declaration without its type annotations
RECURSIVE transpileDeclaration(_)
transpileDeclaration(code) ==
  IF Len(code) = 0 THEN <<>>
  ELSE IF code[1] = ":" /\ Len(code) >= 2 THEN transpileDeclaration(SubSeq(code, 3, Len(code)))
  ELSE <<code[1]>> \o transpileDeclaration(Tail(code))

\* part_001:225-279: the global names of a new sandbox
createSandbox ==
  {"console", "setTimeout", "setInterval", "clearTimeout", "clearInterval", "Promise",
   "Array", "Object", "String", "Number", "Boolean", "Date", "Math", "JSON", "RegExp",
   "Set", "Map", "WeakMap", "WeakSet", "Symbol",
   "Error", "TypeError", "RangeError", "SyntaxError", "ReferenceError",
   "parseInt", "parseFloat", "isNaN", "isFinite",
   "encodeURI", "decodeURI", "encodeURIComponent", "decodeURIComponent",
   "undefined", "null", "NaN", "Infinity"}

\* part_001:38-49: the engine's own working data, stored on the sandbox
EngineNames == {"_transpileTS", "_argsData", "_testArgsStr", "_functionName"}

\* part_001:228-270 and 38: the names whose value is an object or function of
\* the host realm, handed over by reference (their constructor chain ends in
\* the host's Function, which evaluates code in the outer process)
HostRealmNames == (createSandbox \ {"undefined", "null", "NaN", "Infinity"}) \cup {"_transpileTS"}

\* part_001:284-315
RECURSIVE JsonCopy(_)
JsonCopy(v) ==
  IF v.t \in {"undefined", "function", "NaN", "Infinity"} THEN VNull
  ELSE IF v.t = "array" THEN VArr([i \in 1..Len(v.a) |-> JsonCopy(v.a[i])])
  ELSE v

\* part_001:309: JSON.stringify throws a TypeError for a circular structure
IsCyclic(v) == v.t = "object" /\ "cyclic" \in DOMAIN v

T_objectObject ==
  <<"[", "o", "b", "j", "e", "c", "t", " ", "O", "b", "j", "e", "c", "t", "]">>

\* part_001:311: String(result) calls the object's toString, which an
\* object without prototype does not have
StringOf(v) ==
  IF v.proto = "null"
  THEN Thrown(VErr("TypeError: Cannot convert object to primitive value"))
  ELSE Ok(VStr(T_objectObject))

\* serializeResult without the labels for undefined and null
serializeResult_NoLabels(result) ==
  IF result.t = "function" THEN Ok([t |-> "object", _type |-> "function", _source |-> result.f])
  ELSE IF result.t = "Error" THEN Ok([t |-> "object", type |-> "Error", message |-> result.m])
  ELSE IF result.t \in {"object", "array"}
    THEN IF IsCyclic(result) THEN StringOf(result) ELSE Ok(JsonCopy(result))
  ELSE Ok(result)

\* part_001:284-315: the serialized value, or the exception that leaves
\* the method
serializeResult(result) ==
  IF result.t = "undefined" THEN Ok(VStr(T_undefined))
  ELSE IF result.t = "null" THEN Ok(VStr(T_null))
  ELSE IF result.t = "function" THEN Ok([t |-> "object", _type |-> "function", _source |-> result.f])
  ELSE IF result.t = "Error" THEN Ok([t |-> "object", type |-> "Error", message |-> result.m])
  ELSE IF result.t \in {"object", "array"}
    THEN IF IsCyclic(result) THEN StringOf(result) ELSE Ok(JsonCopy(result))
  ELSE Ok(result)

\* part_001:198-204: error.message || String(error).  Reading .message of
\* null or undefined raises a TypeError inside the handler, which leaves
\* executeFunction as a rejection.
CatchError(error, startTime, now) ==
  IF error.t \in {"null", "undefined"}
  THEN [kind |-> "rejected", error |-> "TypeError: Cannot read properties of null"]
  ELSE [kind |-> "returned", success |-> FALSE,
        error |-> IF error.t = "Error" THEN error.m ELSE error.t,
        executionTime |-> now - startTime]

\* part_001:191-197
SuccessOutcome(result, startTime, now) ==
  [kind |-> "returned", success |-> TRUE, result |-> serializeResult(result).v,
   executionTime |-> now - startTime]

\* part_001:126-130: the value of the interpolated `${functionName}` and of
\* `${functionName}.toString()` in the context
ResolveEntry(functionName, binding) ==
  IF Len(functionName) = 1 /\ functionName[1] = binding.name THEN Ok(binding)
  ELSE IF Len(functionName) = 3 /\ functionName[2] = "." /\ functionName[1] = binding.name
    THEN Thrown(VErr("TypeError: Cannot read properties of undefined (reading 'toString')"))
  ELSE Thrown(VErr("ReferenceError: entry is not defined"))

\* part_001:130-131: funcStr.includes('...')
hasRestParams(funcStr) == \E i \in 1..Len(funcStr) : funcStr[i] = "..."

\* part_001:139-152: the argument list the entry is called with
CallArgs(funcStr, parsedArgs) ==
  IF hasRestParams(funcStr) /\ Len(parsedArgs) = 1 /\ IsArray(parsedArgs[1])
  THEN parsedArgs[1].a
  ELSE parsedArgs

\* part_001:142-150: `${functionName}(...args)`; a class is not callable
\* without new
CallEntry(binding, args, host) ==
  IF binding.kind = "class"
  THEN [r |-> Thrown(VErr("TypeError: Class constructor cannot be invoked without 'new'")),
        host |-> host, entered |-> FALSE]
  ELSE [r |-> CallBody(binding.name, VUndef, args, host).r,
        host |-> CallBody(binding.name, VUndef, args, host).host, entered |-> TRUE]

\* FollowUpWanted without the blank-string test
FollowUpWanted_NoTrim(result, testArgsStr) ==
  IsCallable(result) /\ Len(testArgsStr) > 0

\* part_001:157
FollowUpWanted(result, testArgsStr) ==
  IsCallable(result) /\ Len(testArgsStr) > 0 /\ Len(Trim(testArgsStr)) > 0

\* an await on v can resume: v is not a promise, or it has settled
Settled(v) == IsThenable(v) => v.st # "pending"

\* Await that does not wait for a promise
Await_NoWait(v) == Ok(v)

\* what an await yields for a value: a settled promise gives its
\* settlement, any other value gives itself
Await(v) ==
  IF IsThenable(v)
  THEN (IF v.st = "resolved" THEN Ok(v.pv) ELSE Thrown(v.pv))
  ELSE Ok(v)

\* ------------------------------------------------------------------------
\* Requests
\* ------------------------------------------------------------------------
\* extension.ts:119: the descriptors of the document of the requests
MainFunctions == parseFunctions(DocText)

\* extension.ts:175: currentFunctions.find(f => f.name === functionName)
FindFunction(functionName) ==
  MainFunctions[CHOOSE i \in 1..Len(MainFunctions) :
                  /\ MainFunctions[i].name = functionName
                  /\ \A j \in 1..(i - 1) : MainFunctions[j].name # functionName]

\* extension.ts:185-200: the executeFunction call made for a descriptor
ExecRequest(functionName, args, testArgs) ==
  [functionCode |-> FindFunction(functionName).fullText,
   functionName |-> functionName,
   argsWithTypes |-> args,
   isAsync |-> FindFunction(functionName).isAsync,
   testArgs |-> testArgs]

A(value, type) == [value |-> value, type |-> type]

R_abc == <<" ", "a", "b", "c", " ", "d", "e", "f", " ">>
R_objLit == <<"{", "n", "a", "m", "e", ":", " ", "'", "x", "'", "}">>
R_json == <<"{", "\"", "a", "\"", ":", "1", "}">>
R_colonStr == <<"'", "a", ":", "b", "'">>
R_badQuote == <<"'", "a", "'", "b", "'">>
R_arr123 == <<"[", "1", ",", "2", ",", "3", "]">>
R_ten == <<"1", "0">>
R_blank == <<" ", " ">>

\* the executeFunction calls of the model
Requests ==
  { ExecRequest(<<"add">>, <<A(<<"2">>, "number"), A(<<"3">>, "number")>>, <<>>),
    ExecRequest(<<"add">>, <<A(<<"2">>, "number"), A(<<"3">>, "number")>>, R_ten),
    ExecRequest(<<"createMultiplier">>, <<A(<<"5">>, "number")>>, R_ten),
    ExecRequest(<<"createMultiplier">>, <<A(<<"5">>, "number")>>, <<>>),
    ExecRequest(<<"createMultiplier">>, <<A(<<"5">>, "number")>>, R_blank),
    ExecRequest(<<"sum">>, <<A(R_arr123, "number[]")>>, <<>>),
    ExecRequest(<<"sum">>, <<A(<<"1">>, "number"), A(<<"2">>, "number")>>, <<>>),
    ExecRequest(<<"first">>, <<A(R_arr123, "any[]")>>, <<>>),
    ExecRequest(<<"pair">>, <<A(T_true, "string"), A(T_NaN, "number")>>, <<>>),
    ExecRequest(<<"pair">>, <<A(T_null, "number"), A(T_undefined, "boolean")>>, <<>>),
    ExecRequest(<<"pair">>, <<A(T_false, "any"), A(R_abc, "string")>>, <<>>),
    ExecRequest(<<"pair">>, <<A(R_objLit, "object"), A(<<"7">>, "number")>>, <<>>),
    ExecRequest(<<"pair">>, <<A(R_json, "object"), A(R_colonStr, "string")>>, <<>>),
    ExecRequest(<<"pair">>, <<A(<<>>, "any"), A(R_badQuote, "string")>>, <<>>),
    ExecRequest(<<"boom">>, <<>>, <<>>),
    ExecRequest(<<"throwNull">>, <<>>, <<>>),
    ExecRequest(<<"bump">>, <<>>, <<>>),
    ExecRequest(<<"later">>, <<>>, R_ten),
    ExecRequest(<<"asyncMaker">>, <<A(<<"5">>, "number")>>, R_ten),
    ExecRequest(<<"rejecter">>, <<>>, <<>>),
    ExecRequest(<<"asyncFail">>, <<>>, <<>>),
    ExecRequest(<<"rejectNull">>, <<>>, <<>>),
    ExecRequest(<<"makeThrower">>, <<>>, <<"1">>),
    ExecRequest(<<"dbl">>, <<A(<<"4">>, "number")>>, <<>>),
    ExecRequest(<<"Counter">>, <<A(<<"1">>, "number")>>, <<>>),
    ExecRequest(<<"Counter", ".", "inc">>, <<A(<<"1">>, "number")>>, <<>>),
    ExecRequest(<<"noop">>, <<>>, <<>>),
    ExecRequest(<<"nothing">>, <<>>, <<>>),
    ExecRequest(<<"curry">>, <<A(<<"1">>, "number")>>, <<"2">>),
    ExecRequest(<<"logger">>, <<>>, <<"1">>) }

\* ------------------------------------------------------------------------
\* State
\* ------------------------------------------------------------------------
Calls == {"c1", "c2"}

VARIABLES
  calls,     \* per executeFunction call: its position and local variables
  running,   \* the call that occupies the JavaScript thread, or "none"
  clock,     \* Date.now()
  hostMath,  \* Math.counter of the host's Math object (part_001:248)
  activeEditor,      \* vscode.window.activeTextEditor's document
  currentFunctions,  \* extension.ts:63
  parseResult,       \* how the last parseFunctions call of the extension ended
  coerced,           \* the last parseArgumentValue call: its inputs and result
  view,              \* TestPanelProvider._view is set (webviewProvider.ts:9)
  pendingFunctions,  \* TestPanelProvider._pendingFunctions (webviewProvider.ts:10)
  offered,           \* the argument of the last updateFunctions call
  inbox,             \* messages posted to the webview, not yet delivered
  outbox,            \* messages posted by the webview, not yet handled
  handling,          \* per executeFunction call: the message it was started for
  selection,         \* line of the editor's selection (extension.ts:157-158)
  functions,         \* webview: `functions` (webviewProvider.ts:393)
  currentFunction,   \* webview: `currentFunction` (webviewProvider.ts:392)
  expanded,          \* webview: data-index of the expanded list item, or -1
  shownMethods,      \* webview: the method wrappers with input boxes -> displayed?
  panels,            \* webview: what the result panel of each data-index shows
  functionHistory,   \* webview: `functionHistory` (webviewProvider.ts:394)
  classInstances     \* webview: keys of `classInstances` (webviewProvider.ts:396)

executorVars == <<calls, running, clock, hostMath>>
extensionVars == <<activeEditor, currentFunctions, parseResult>>
providerVars == <<view, pendingFunctions, offered>>
hostVars == <<outbox, handling, selection>>
webviewVars ==
  <<functions, currentFunction, expanded, shownMethods, panels, functionHistory,
    classInstances>>
panelVars == <<providerVars, inbox, hostVars, webviewVars>>
vars ==
  <<calls, running, clock, hostMath, activeEditor, currentFunctions, parseResult, coerced,
    view, pendingFunctions, offered, inbox, outbox, handling, selection, functions,
    currentFunction, expanded, shownMethods, panels, functionHistory, classInstances>>

NoValue == [t |-> "none"]
NoRequest ==
  [functionCode |-> <<>>, functionName |-> <<>>, argsWithTypes |-> <<>>,
   isAsync |-> FALSE, testArgs |-> <<>>]
NoBinding == [name |-> "", kind |-> "none", text |-> <<>>]

IdleCall ==
  [pc |-> "IDLE",
   req |-> NoRequest,
   startTime |-> 0,
   names |-> {},            \* global names of the context
   binding |-> NoBinding,   \* what Phase 1 defined
   parsedArgs |-> <<>>,
   actualArgs |-> <<>>,     \* the argument list of the primary call
   returned |-> NoValue,    \* what the primary call returned
   result |-> NoValue,      \* `result` of the execution script
   pending |-> NoValue,     \* the value an await is suspended on
   tested |-> NoValue,      \* the value typeof was applied to (part_001:157)
   followArgs |-> <<>>,
   settled |-> [st |-> "pending"],  \* the promise of the execution script
   evaluated |-> 0,         \* times the source text was handed to the script engine
   invoked |-> 0,           \* times the entry's body was entered
   followCalls |-> 0,       \* times a returned callable was called
   failedAt |-> "none",
   outcome |-> [kind |-> "none"]]

\* extension.ts:96-98 with no editor open
NoEditor == [languageId |-> "none", text |-> <<>>]
NoCoercion == [value |-> <<>>, type |-> <<>>, called |-> FALSE, result |-> NoValue]
\* an optional descriptor list that is undefined
NoList == [defined |-> FALSE]
\* a variable of the webview or the extension that holds null / undefined
NoFunction == [name |-> <<>>, defined |-> FALSE]
NoMessage == [type |-> "none"]
NotExpanded == 0 - 1

Init ==
  /\ calls = [c \in Calls |-> IdleCall]
  /\ running = "none"
  /\ clock = 0
  /\ hostMath = 0
  /\ activeEditor = NoEditor
  /\ currentFunctions = <<>>
  /\ parseResult = "none"
  /\ coerced = NoCoercion
  /\ view = FALSE
  /\ pendingFunctions = NoList
  /\ offered = NoList
  /\ inbox = <<>>
  /\ outbox = <<>>
  /\ handling = [c \in Calls |-> NoMessage]
  /\ selection = 0
  /\ functions = <<>>
  /\ currentFunction = NoFunction
  /\ expanded = NotExpanded
  /\ shownMethods = <<>>
  /\ panels = <<>>
  /\ functionHistory = <<>>
  /\ classInstances = {}

\* calls that will still run bump's body
PendingBumps ==
  Cardinality({c \in Calls : /\ calls[c].req.functionName = <<"bump">>
                             /\ calls[c].pc \in {"DEFINING", "MATERIALISING", "INVOKING"}})

\* part_001:28-49: start of executeFunction up to the injected sandbox
StartCall(c, req) ==
  /\ calls[c].pc = "IDLE"
  /\ running = "none"
  /\ req.functionName = <<"bump">> => hostMath + PendingBumps < MaxHost
  /\ calls' = [calls EXCEPT ![c] =
       [IdleCall EXCEPT !.pc = "DEFINING", !.req = req, !.startTime = clock,
                        !.names = createSandbox \cup EngineNames]]
  /\ running' = c
  /\ UNCHANGED <<clock, hostMath>>

\* executeFunction called by a caller other than the panel's handler
Begin(c, req) ==
  /\ StartCall(c, req)
  /\ UNCHANGED <<extensionVars, coerced, panelVars>>

\* part_001:52-54 (Phase 1), and the catch handler when it throws
RunDefinition(c) ==
  /\ calls[c].pc = "DEFINING"
  /\ running = c
  /\ LET r == RunScript(transpileDeclaration(calls[c].req.functionCode)) IN
     IF r.ok
     THEN /\ calls' = [calls EXCEPT ![c] =
               [@ EXCEPT !.pc = "MATERIALISING", !.binding = r.v, !.evaluated = @ + 1,
                         !.names = @ \cup {r.v.name}]]
          /\ running' = c
     ELSE /\ calls' = [calls EXCEPT ![c] =
               [@ EXCEPT !.pc = "FAILED", !.failedAt = "DEFINING", !.evaluated = @ + 1,
                         !.outcome = CatchError(r.v, calls[c].startTime, clock)]]
          /\ running' = "none"
  /\ UNCHANGED <<clock, hostMath>>
  /\ UNCHANGED <<extensionVars, coerced, panelVars>>

\* part_001:47 and 60-123
MaterialiseArgs(c) ==
  /\ calls[c].pc = "MATERIALISING"
  /\ running = c
  /\ LET argsData == [i \in 1..Len(calls[c].req.argsWithTypes) |->
                        calls[c].req.argsWithTypes[i].value]
         rs == [i \in 1..Len(argsData) |-> MaterialiseArg(argsData[i])]
     IN IF \A i \in 1..Len(rs) : rs[i].ok
        THEN /\ calls' = [calls EXCEPT ![c] =
                  [@ EXCEPT !.pc = "INVOKING",
                            !.parsedArgs = [i \in 1..Len(rs) |-> rs[i].v]]]
             /\ running' = c
        ELSE /\ calls' = [calls EXCEPT ![c] =
                  [@ EXCEPT !.pc = "AWAIT_SCRIPT", !.failedAt = "MATERIALISING",
                            !.settled = [st |-> "rejected",
                                         v |-> rs[CHOOSE i \in 1..Len(rs) : ~rs[i].ok].v]]]
             /\ running' = "none"
  /\ UNCHANGED <<clock, hostMath>>
  /\ UNCHANGED <<extensionVars, coerced, panelVars>>

\* part_001:126-152 (Phase 2 invocation)
InvokePrimary(c) ==
  /\ calls[c].pc = "INVOKING"
  /\ running = c
  /\ LET entry == ResolveEntry(calls[c].req.functionName, calls[c].binding)
         args == CallArgs(calls[c].binding.text, calls[c].parsedArgs)
         call == CallEntry(calls[c].binding, args, hostMath)
     IN IF ~entry.ok
        THEN /\ calls' = [calls EXCEPT ![c] =
                  [@ EXCEPT !.pc = "AWAIT_SCRIPT", !.failedAt = "INVOKING",
                            !.settled = [st |-> "rejected", v |-> entry.v]]]
             /\ running' = "none"
             /\ UNCHANGED hostMath
        ELSE /\ hostMath' = call.host
             /\ IF ~call.r.ok
                THEN /\ calls' = [calls EXCEPT ![c] =
                          [@ EXCEPT !.pc = "AWAIT_SCRIPT", !.failedAt = "INVOKING",
                                    !.actualArgs = args,
                                    !.invoked = IF call.entered THEN @ + 1 ELSE @,
                                    !.settled = [st |-> "rejected", v |-> call.r.v]]]
                     /\ running' = "none"
                ELSE IF calls[c].req.isAsync
                THEN /\ calls' = [calls EXCEPT ![c] =
                          [@ EXCEPT !.pc = "AWAIT_PRIMARY", !.actualArgs = args,
                                    !.invoked = @ + 1, !.returned = call.r.v,
                                    !.pending = call.r.v]]
                     /\ running' = "none"
                ELSE /\ calls' = [calls EXCEPT ![c] =
                          [@ EXCEPT !.pc = "CHECK_FOLLOWUP", !.actualArgs = args,
                                    !.invoked = @ + 1, !.returned = call.r.v,
                                    !.result = call.r.v]]
                     /\ running' = c
  /\ UNCHANGED clock
  /\ UNCHANGED <<extensionVars, coerced, panelVars>>

\* part_001:142 / 148: the await of the primary result resumes
ResumePrimary(c) ==
  /\ calls[c].pc = "AWAIT_PRIMARY"
  /\ running = "none"
  /\ Settled(calls[c].pending)
  /\ LET r == Await(calls[c].pending) IN
     IF r.ok
     THEN /\ calls' = [calls EXCEPT ![c] =
               [@ EXCEPT !.pc = "CHECK_FOLLOWUP", !.result = r.v, !.pending = NoValue]]
          /\ running' = c
     ELSE /\ calls' = [calls EXCEPT ![c] =
               [@ EXCEPT !.pc = "AWAIT_SCRIPT", !.failedAt = "INVOKING", !.pending = NoValue,
                         !.settled = [st |-> "rejected", v |-> r.v]]]
          /\ running' = "none"
  /\ UNCHANGED <<clock, hostMath>>
  /\ UNCHANGED <<extensionVars, coerced, panelVars>>

\* part_001:157-167 and 180
CheckFollowUp(c) ==
  /\ calls[c].pc = "CHECK_FOLLOWUP"
  /\ running = c
  /\ IF FollowUpWanted(calls[c].result, calls[c].req.testArgs)
     THEN /\ calls' = [calls EXCEPT ![c] =
               [@ EXCEPT !.pc = "FOLLOWUP_INVOKING", !.tested = calls[c].result,
                         !.followArgs = ParseTestArgs(calls[c].req.testArgs)]]
          /\ running' = c
     ELSE /\ calls' = [calls EXCEPT ![c] =
               [@ EXCEPT !.pc = "AWAIT_SCRIPT", !.tested = calls[c].result,
                         !.settled = [st |-> "resolved", v |-> calls[c].result]]]
          /\ running' = "none"
  /\ UNCHANGED <<clock, hostMath>>
  /\ UNCHANGED <<extensionVars, coerced, panelVars>>

\* InvokeFollowUp that calls a callable follow-up result again
InvokeFollowUp_Chained(c) ==
  /\ calls[c].pc = "FOLLOWUP_INVOKING"
  /\ running = c
  /\ LET call == CallBody(calls[c].result.f, calls[c].result.env, calls[c].followArgs, hostMath)
     IN /\ hostMath' = call.host
        /\ IF ~call.r.ok
           THEN /\ calls' = [calls EXCEPT ![c] =
                     [@ EXCEPT !.pc = "AWAIT_SCRIPT", !.failedAt = "FOLLOWUP_INVOKING",
                               !.followCalls = @ + 1,
                               !.settled = [st |-> "rejected", v |-> call.r.v]]]
                /\ running' = "none"
           ELSE IF IsCallable(call.r.v)
           THEN /\ calls' = [calls EXCEPT ![c] =
                     [@ EXCEPT !.followCalls = @ + 1, !.result = call.r.v]]
                /\ running' = c
           ELSE /\ calls' = [calls EXCEPT ![c] =
                     [@ EXCEPT !.pc = "AWAIT_SCRIPT", !.followCalls = @ + 1,
                               !.result = call.r.v,
                               !.settled = [st |-> "resolved", v |-> call.r.v]]]
                /\ running' = "none"
  /\ UNCHANGED clock
  /\ UNCHANGED <<extensionVars, coerced, panelVars>>

\* part_001:172-180
InvokeFollowUp(c) ==
  /\ calls[c].pc = "FOLLOWUP_INVOKING"
  /\ running = c
  /\ LET call == CallBody(calls[c].result.f, calls[c].result.env, calls[c].followArgs, hostMath)
     IN /\ hostMath' = call.host
        /\ IF ~call.r.ok
           THEN calls' = [calls EXCEPT ![c] =
                  [@ EXCEPT !.pc = "AWAIT_SCRIPT", !.failedAt = "FOLLOWUP_INVOKING",
                            !.followCalls = @ + 1,
                            !.settled = [st |-> "rejected", v |-> call.r.v]]]
           ELSE IF calls[c].req.isAsync
           THEN calls' = [calls EXCEPT ![c] =
                  [@ EXCEPT !.pc = "AWAIT_FOLLOWUP", !.followCalls = @ + 1,
                            !.pending = call.r.v]]
           ELSE calls' = [calls EXCEPT ![c] =
                  [@ EXCEPT !.pc = "AWAIT_SCRIPT", !.followCalls = @ + 1,
                            !.result = call.r.v,
                            !.settled = [st |-> "resolved", v |-> call.r.v]]]
  /\ running' = "none"
  /\ UNCHANGED clock
  /\ UNCHANGED <<extensionVars, coerced, panelVars>>

\* part_001:173: the await of the follow-up result resumes; part_001:180
ResumeFollowUp(c) ==
  /\ calls[c].pc = "AWAIT_FOLLOWUP"
  /\ running = "none"
  /\ Settled(calls[c].pending)
  /\ LET r == Await(calls[c].pending) IN
     IF r.ok
     THEN calls' = [calls EXCEPT ![c] =
            [@ EXCEPT !.pc = "AWAIT_SCRIPT", !.result = r.v, !.pending = NoValue,
                      !.settled = [st |-> "resolved", v |-> r.v]]]
     ELSE calls' = [calls EXCEPT ![c] =
            [@ EXCEPT !.pc = "AWAIT_SCRIPT", !.failedAt = "FOLLOWUP_INVOKING",
                      !.pending = NoValue,
                      !.settled = [st |-> "rejected", v |-> r.v]]]
  /\ UNCHANGED <<running, clock, hostMath>>
  /\ UNCHANGED <<extensionVars, coerced, panelVars>>

\* part_001:184-204: the await of the script's promise resumes (a promise
\* returned by the script is adopted), then the outcome is built
Finish(c) ==
  /\ calls[c].pc = "AWAIT_SCRIPT"
  /\ running = "none"
  /\ calls[c].settled.st = "resolved" => Settled(calls[c].settled.v)
  /\ LET final == IF calls[c].settled.st = "resolved"
                  THEN Await(calls[c].settled.v)
                  ELSE Thrown(calls[c].settled.v)
     IN IF final.ok /\ serializeResult(final.v).ok
        THEN calls' = [calls EXCEPT ![c] =
               [@ EXCEPT !.pc = "DONE",
                         !.outcome = SuccessOutcome(final.v, calls[c].startTime, clock)]]
        ELSE IF final.ok
        THEN calls' = [calls EXCEPT ![c] =
               [@ EXCEPT !.pc = "FAILED",
                         !.failedAt = "SERIALISING",
                         !.outcome = CatchError(serializeResult(final.v).v,
                                                calls[c].startTime, clock)]]
        ELSE calls' = [calls EXCEPT ![c] =
               [@ EXCEPT !.pc = "FAILED",
                         !.failedAt = IF @ = "none" THEN "INVOKING" ELSE @,
                         !.outcome = CatchError(final.v, calls[c].startTime, clock)]]
  /\ UNCHANGED <<running, clock, hostMath>>
  /\ UNCHANGED <<extensionVars, coerced, panelVars>>

\* the caller has taken the outcome; the call's context is garbage
Release(c) ==
  /\ calls[c].pc \in {"DONE", "FAILED"}
  /\ handling[c] = NoMessage
  /\ calls' = [calls EXCEPT ![c] = IdleCall]
  /\ UNCHANGED <<running, clock, hostMath>>
  /\ UNCHANGED <<extensionVars, coerced, panelVars>>

\* wall-clock time passes
Tick ==
  /\ clock < MaxClock
  /\ clock' = clock + 1
  /\ UNCHANGED <<calls, running, hostMath>>
  /\ UNCHANGED <<extensionVars, coerced, panelVars>>

Next ==
  \/ \E c \in Calls, req \in Requests : Begin(c, req)
  \/ \E c \in Calls : RunDefinition(c)
  \/ \E c \in Calls : MaterialiseArgs(c)
  \/ \E c \in Calls : InvokePrimary(c)
  \/ \E c \in Calls : ResumePrimary(c)
  \/ \E c \in Calls : CheckFollowUp(c)
  \/ \E c \in Calls : InvokeFollowUp(c)
  \/ \E c \in Calls : ResumeFollowUp(c)
  \/ \E c \in Calls : Finish(c)
  \/ \E c \in Calls : Release(c)
  \/ Tick

Spec == Init /\ [][Next]_vars

\* ------------------------------------------------------------------------
\* The executor with a callable whose promise never settles, under the
\* scheduling of the JavaScript event loop
\* ------------------------------------------------------------------------
LiveRequests ==
  { ExecRequest(<<"hang">>, <<>>, <<>>),
    ExecRequest(<<"asyncMaker">>, <<A(<<"5">>, "number")>>, R_ten) }

LiveNext ==
  \/ \E c \in Calls, req \in LiveRequests : Begin(c, req)
  \/ \E c \in Calls : RunDefinition(c)
  \/ \E c \in Calls : MaterialiseArgs(c)
  \/ \E c \in Calls : InvokePrimary(c)
  \/ \E c \in Calls : ResumePrimary(c)
  \/ \E c \in Calls : CheckFollowUp(c)
  \/ \E c \in Calls : InvokeFollowUp(c)
  \/ \E c \in Calls : ResumeFollowUp(c)
  \/ \E c \in Calls : Finish(c)
  \/ \E c \in Calls : Release(c)
  \/ Tick

\* A call that holds the thread runs on to its next await; a continuation
\* whose await has settled is a queued job, and the event loop runs every
\* queued job once the thread is free.
Continue(c) ==
  \/ RunDefinition(c)
  \/ MaterialiseArgs(c)
  \/ InvokePrimary(c)
  \/ CheckFollowUp(c)
  \/ InvokeFollowUp(c)

Resume(c) ==
  \/ ResumePrimary(c)
  \/ ResumeFollowUp(c)
  \/ Finish(c)

EventLoop == \A c \in Calls : WF_vars(Continue(c)) /\ SF_vars(Resume(c))

LiveSpec == Init /\ [][LiveNext]_vars /\ EventLoop

\* ------------------------------------------------------------------------
\* The executor with follow-up strings of every shape (part_001:157-176)
\* ------------------------------------------------------------------------
R_nested == <<"[", "1", ",", "2", "]">>
R_two == <<"1", ",", " ", "2">>
R_mixed == <<"7", ",", "{", "\"", "a", "\"", ":", "1", ",", "\"", "b", "\"", ":", "2", "}">>
R_single == <<"'", "a", "'">>
R_double == <<"\"", "a", "\"">>
R_word == <<"a", "b">>
R_gap == <<"1", ",", ",", "2">>

FollowUpTexts ==
  { R_nested, R_two, R_mixed, R_single, R_double, R_word, R_gap, R_json, R_ten,
    T_true, T_false, T_null, T_undefined, T_NaN, T_Infinity }

FollowUpRequests ==
  { ExecRequest(<<"logger">>, <<>>, t) : t \in FollowUpTexts }
    \cup { ExecRequest(<<"asyncMaker">>, <<A(<<"5">>, "number")>>, R_two) }

FollowUpNext ==
  \/ \E c \in Calls, req \in FollowUpRequests : Begin(c, req)
  \/ \E c \in Calls : RunDefinition(c)
  \/ \E c \in Calls : MaterialiseArgs(c)
  \/ \E c \in Calls : InvokePrimary(c)
  \/ \E c \in Calls : ResumePrimary(c)
  \/ \E c \in Calls : CheckFollowUp(c)
  \/ \E c \in Calls : InvokeFollowUp(c)
  \/ \E c \in Calls : ResumeFollowUp(c)
  \/ \E c \in Calls : Finish(c)
  \/ \E c \in Calls : Release(c)
  \/ Tick

FollowUpSpec == Init /\ [][FollowUpNext]_vars

\* ------------------------------------------------------------------------
\* The executor with results of every kind (part_001:191-204, 284-315)
\* ------------------------------------------------------------------------
ResultRequests ==
  { ExecRequest(<<"ring">>, <<>>, <<>>),
    ExecRequest(<<"bare">>, <<>>, <<>>),
    ExecRequest(<<"pair">>, <<A(R_json, "object"), A(<<"7">>, "number")>>, <<>>),
    ExecRequest(<<"first">>, <<A(R_arr123, "any[]")>>, <<>>),
    ExecRequest(<<"createMultiplier">>, <<A(<<"5">>, "number")>>, <<>>),
    ExecRequest(<<"boom">>, <<>>, <<>>),
    ExecRequest(<<"asyncMaker">>, <<A(<<"5">>, "number")>>, R_ten) }

ResultNext ==
  \/ \E c \in Calls, req \in ResultRequests : Begin(c, req)
  \/ \E c \in Calls : RunDefinition(c)
  \/ \E c \in Calls : MaterialiseArgs(c)
  \/ \E c \in Calls : InvokePrimary(c)
  \/ \E c \in Calls : ResumePrimary(c)
  \/ \E c \in Calls : CheckFollowUp(c)
  \/ \E c \in Calls : InvokeFollowUp(c)
  \/ \E c \in Calls : ResumeFollowUp(c)
  \/ \E c \in Calls : Finish(c)
  \/ \E c \in Calls : Release(c)
  \/ Tick

ResultSpec == Init /\ [][ResultNext]_vars

\* ------------------------------------------------------------------------
\* The extension's function list (extension.ts:63, 78-130)
\* ------------------------------------------------------------------------
\* messages posted to the webview and not yet delivered
MaxInbox == 1

\* the documents an editor can show: every source file as a TypeScript
\* document, and a plain text document
PlainDocument == [languageId |-> "plaintext", text |-> <<"hello">>]

Documents ==
  {[languageId |-> "typescript", text |-> f.text] : f \in SourceFiles} \cup {PlainDocument}

\* extension.ts:117-129: the try block around parseFunctions.  The call
\* returns for every text (see createSourceFile).
TryParse(sourceCode) == Ok(parseFunctions(sourceCode))

\* a message is posted to the webview (webview.postMessage)
Post(message) == inbox' = Append(inbox, message)

UpdateMessage(list) == [type |-> "updateFunctions", functions |-> list]

\* updateFunctions that buffers the list also when the view exists
updateFunctions_AlwaysBuffer(list) ==
  /\ offered' = [defined |-> TRUE, list |-> list]
  /\ pendingFunctions' = [defined |-> TRUE, list |-> list]
  /\ UNCHANGED <<view, inbox>>

\* webviewProvider.ts:47-61
updateFunctions(list) ==
  /\ offered' = [defined |-> TRUE, list |-> list]
  /\ IF view
     THEN /\ Post(UpdateMessage(list))
          /\ UNCHANGED pendingFunctions
     ELSE /\ pendingFunctions' = [defined |-> TRUE, list |-> list]
          /\ UNCHANGED inbox
  /\ UNCHANGED view

\* extension.ts:105-130
updateFunctionList(document) ==
  IF document.languageId \notin {"typescript", "javascript"}
  THEN /\ updateFunctions(<<>>)
       /\ UNCHANGED <<currentFunctions, parseResult>>
  ELSE LET r == TryParse(document.text)
       IN IF r.ok
          THEN /\ currentFunctions' = r.v
               /\ parseResult' = "returned"
               /\ updateFunctions(r.v)
          ELSE /\ parseResult' = "threw"
               /\ UNCHANGED <<currentFunctions, providerVars, inbox>>

\* extension.ts:78-85
ChangeActiveTextEditor(d) ==
  /\ activeEditor' = d
  /\ view => Len(inbox) < MaxInbox
  /\ IF d # NoEditor
     THEN updateFunctionList(d)
     ELSE UNCHANGED <<currentFunctions, parseResult, providerVars, inbox>>
  /\ UNCHANGED <<executorVars, coerced, hostVars, webviewVars>>

\* extension.ts:87-94: the text of the active editor's document changes
ChangeTextDocument(d) ==
  /\ activeEditor # NoEditor
  /\ d.languageId = activeEditor.languageId
  /\ d.text # activeEditor.text
  /\ view => Len(inbox) < MaxInbox
  /\ activeEditor' = d
  /\ updateFunctionList(d)
  /\ UNCHANGED <<executorVars, coerced, hostVars, webviewVars>>

\* the documents open in tabs when the session starts
OpenDocuments ==
  {[languageId |-> "typescript", text |-> DocText],
   [languageId |-> "typescript", text |-> <<>>],
   PlainDocument}

\* what one edit makes of a document: a statement typed at its end, or all
\* of its text deleted
Edits(document) ==
  {d \in {[document EXCEPT !.text = @ \o Snippets[i].text \o <<"\n">>] :
             i \in 1..Len(Snippets)}
          \cup {[document EXCEPT !.text = <<>>]} : d \in Documents}

ExtensionNext ==
  \/ \E d \in OpenDocuments \cup {NoEditor} : ChangeActiveTextEditor(d)
  \/ \E d \in Edits(activeEditor) : ChangeTextDocument(d)

ExtensionSpec == Init /\ [][ExtensionNext]_vars

\* ------------------------------------------------------------------------
\* The test panel: TestPanelProvider (webviewProvider.ts:7-96), the script
\* of the webview (webviewProvider.ts:386-1107) and the message handlers of
\* the extension (extension.ts:135-214)
\* ------------------------------------------------------------------------
\* messages posted by the webview and not yet handled
MaxOutbox == 1
\* executeFunction calls the message handler has running at a time
MaxConcurrent == 1
\* webviewProvider.ts:395
MAX_HISTORY_PER_FUNC == 3

\* webviewProvider.ts:439-451: a descriptor that is neither a class nor a method
IsRegular(func) == ~func.isClass /\ func.className = ""
IsMethodOfClass(func) == func.className # "" /\ ~func.isClass

\* webviewProvider.ts:435-452: the `classes` object after the forEach, as
\* the sequence of its entries in the insertion order of their keys
RECURSIVE Group(_, _)
Group(funcs, classes) ==
  IF Len(funcs) = 0 THEN classes
  ELSE LET func == funcs[1]
           key == IF func.isClass THEN func.name ELSE <<func.className>>
           at == {i \in 1..Len(classes) : classes[i].key = key}
           i == CHOOSE k \in at : TRUE
       IN IF IsRegular(func) THEN Group(Tail(funcs), classes)
          ELSE IF func.isClass
            THEN LET entry == [key |-> key, class |-> func, methods |-> <<>>]
                 IN Group(Tail(funcs),
                          IF at = {} THEN Append(classes, entry)
                          ELSE [classes EXCEPT ![i] = entry])
          ELSE Group(Tail(funcs),
                     IF at = {}
                     THEN Append(classes, [key |-> key, class |-> NoFunction,
                                           methods |-> <<func>>])
                     ELSE [classes EXCEPT ![i].methods = Append(@, func)])

\* an element of the list that carries a data-index: the descriptor it
\* displays and the list item (li) it is part of
Element(kind, func, item) == [kind |-> kind, func |-> func, item |-> item]

\* webviewProvider.ts:489-555: the class items, from data-index `index` on
RECURSIVE RenderClasses(_, _)
RenderClasses(classes, index) ==
  IF Len(classes) = 0 THEN <<>>
  ELSE IF classes[1].class = NoFunction THEN RenderClasses(Tail(classes), index)
  ELSE <<Element("class-item", classes[1].class, index)>>
       \o [k \in 1..Len(classes[1].methods) |->
             Element("method-wrapper", classes[1].methods[k], index)]
       \o RenderClasses(Tail(classes), index + 1 + Len(classes[1].methods))

\* webviewProvider.ts:422-557, renderFunctionList: the elements in the
\* order of their data-index (element k has data-index k - 1)
Render(funcs) ==
  LET regular == SelectSeq(funcs, IsRegular)
  IN [k \in 1..Len(regular) |-> Element("function-item", regular[k], k - 1)]
     \o RenderClasses(Group(funcs, <<>>), Len(regular))

\* the list the webview shows
Dom == Render(functions)

\* document.querySelector('.function-item[data-index="i"]') finds an element
ItemAt(index) ==
  /\ index + 1 \in DOMAIN Dom
  /\ Dom[index + 1].kind \in {"function-item", "class-item"}

\* document.querySelector('.method-name[data-method-index="i"]') finds one
MethodAt(index) ==
  /\ index + 1 \in DOMAIN Dom
  /\ Dom[index + 1].kind = "method-wrapper"

\* functions[index], or undefined
FunctionAt(index) ==
  IF index + 1 \in DOMAIN functions THEN functions[index + 1] ELSE NoFunction

PanelBlank == [state |-> "hidden"]

\* a value that an `if` takes as true
Truthy(v) ==
  CASE v.t \in {"undefined", "null", "NaN", "none"} -> FALSE
    [] v.t = "boolean" -> v.b
    [] v.t = "number" -> v.n # 0
    [] v.t = "string" -> Len(v.s) > 0
    [] OTHER -> TRUE

\* functionHistory[funcName] || []
HistoryOf(funcName) ==
  IF funcName \in DOMAIN functionHistory THEN functionHistory[funcName] ELSE <<>>

\* saveToHistory that drops nothing
saveToHistory_Unbounded(record) ==
  functionHistory' =
    [n \in DOMAIN functionHistory \cup {record.functionName} |->
       IF n = record.functionName THEN <<record>> \o HistoryOf(n) ELSE functionHistory[n]]

\* webviewProvider.ts:1017-1032
saveToHistory(record) ==
  LET unshifted == <<record>> \o HistoryOf(record.functionName)
      kept == IF Len(unshifted) > MAX_HISTORY_PER_FUNC
              THEN SubSeq(unshifted, 1, Len(unshifted) - 1)
              ELSE unshifted
  IN functionHistory' =
       [n \in DOMAIN functionHistory \cup {record.functionName} |->
          IF n = record.functionName THEN kept ELSE functionHistory[n]]

\* webviewProvider.ts:988-1015
validateInput(value, type) ==
  IF Len(value) = 0 THEN TRUE
  ELSE IF type = "number" THEN ~IsNaNValue(ToNumber(value))
  ELSE IF type = "boolean" THEN value \in {T_true, T_false}
  ELSE IF StartsWith(value, <<"{">>) \/ StartsWith(value, <<"[">>)
    THEN Includes(value, <<"=", ">">>) \/ Includes(value, T_function) \/ JSONParse(value).ok
  ELSE TRUE

\* the parameters whose input boxes an element holds: a function item holds
\* those of its function (webviewProvider.ts:575-579), a method wrapper
\* those of its method (635); a class item holds no box for the
\* constructor ('.test-panel > .param-inputs' matches nothing in it), only
\* the boxes of the methods that have been opened, displayed or not
RECURSIVE MethodInputs(_, _)
MethodInputs(item, k) ==
  IF k > Len(Dom) THEN <<>>
  ELSE (IF Dom[k].kind = "method-wrapper" /\ Dom[k].item = item
           /\ (k - 1) \in DOMAIN shownMethods
        THEN FunctionAt(k - 1).parameters ELSE <<>>)
       \o MethodInputs(item, k + 1)

InputsIn(index) ==
  IF Dom[index + 1].kind = "function-item" THEN FunctionAt(index).parameters
  ELSE IF Dom[index + 1].kind = "class-item" THEN MethodInputs(index, 1)
  ELSE FunctionAt(index).parameters

\* container.style.display of the method wrapper is not 'none'
Opened(index) == index \in DOMAIN shownMethods /\ shownMethods[index]

\* the execute button with this data-index can be pressed: its part of the
\* list is displayed
ButtonVisible(index) ==
  /\ index + 1 \in DOMAIN Dom
  /\ expanded = Dom[index + 1].item
  /\ Dom[index + 1].kind = "method-wrapper" => Opened(index)

\* webviewProvider.ts:403-411: an updateFunctions message
ShowFunctions(funcs) ==
  /\ functions' = funcs
  /\ expanded' = NotExpanded
  /\ shownMethods' = <<>>
  /\ panels' = [k \in 1..Len(Render(funcs)) |-> PanelBlank]
  /\ UNCHANGED <<currentFunction, functionHistory, classInstances>>

\* webviewProvider.ts:888-934
showResult(result) ==
  LET index == result.index
      func == FunctionAt(index)
      found == IF func # NoFunction /\ IsMethodOfClass(func)
               THEN MethodAt(index) ELSE ItemAt(index)
  IN /\ IF found
        THEN /\ panels' = [panels EXCEPT ![index + 1] =
                             [state |-> "result", success |-> result.success,
                              for |-> result.for]]
             /\ classInstances' =
                  IF result.success /\ func # NoFunction /\ func.isClass
                     /\ Truthy(result.result)
                  THEN classInstances \cup {func.name}
                  ELSE classInstances
        ELSE UNCHANGED <<panels, classInstances>>
     /\ UNCHANGED <<functions, currentFunction, expanded, shownMethods, functionHistory>>

\* webviewProvider.ts:403-420: the webview receives the next message
Deliver ==
  /\ inbox # <<>>
  /\ inbox' = Tail(inbox)
  /\ IF Head(inbox).type = "updateFunctions"
     THEN ShowFunctions(Head(inbox).functions)
     ELSE showResult(Head(inbox).result)
  /\ UNCHANGED <<executorVars, extensionVars, coerced, providerVars, hostVars>>

\* webviewProvider.ts:559-585: a click on the header of a list item
ClickHeader(index) ==
  /\ ItemAt(index)
  /\ IF expanded # index
     THEN /\ expanded' = index
          /\ currentFunction' = FunctionAt(index)
     ELSE /\ expanded' = NotExpanded
          /\ currentFunction' = NoFunction
  /\ UNCHANGED <<functions, shownMethods, panels, functionHistory, classInstances>>
  /\ UNCHANGED <<executorVars, extensionVars, coerced, providerVars, inbox, hostVars>>

\* webviewProvider.ts:619-645: a click on the name of a method
ClickMethodName(index) ==
  /\ MethodAt(index)
  /\ expanded = Dom[index + 1].item
  /\ IF ~Opened(index)
     THEN /\ shownMethods' = [i \in DOMAIN shownMethods \cup {index} |->
                                i = index \/ shownMethods[i]]
          /\ currentFunction' = FunctionAt(index)
          /\ UNCHANGED panels
     ELSE /\ shownMethods' = [shownMethods EXCEPT ![index] = FALSE]
          /\ currentFunction' = NoFunction
          /\ panels' = [panels EXCEPT ![index + 1] = PanelBlank]
  /\ UNCHANGED <<functions, expanded, functionHistory, classInstances>>
  /\ UNCHANGED <<executorVars, extensionVars, coerced, providerVars, inbox, hostVars>>

\* webviewProvider.ts:603-616: a click on the name of a function or class
ClickFunctionName(index) ==
  /\ ItemAt(index)
  /\ Len(outbox) < MaxOutbox
  /\ outbox' = Append(outbox, [type |-> "jumpToDefinition",
                               functionName |-> FunctionAt(index).name,
                               shown |-> Dom[index + 1].func.name])
  /\ UNCHANGED <<handling, selection>>
  /\ UNCHANGED <<executorVars, extensionVars, coerced, providerVars, inbox, webviewVars>>

\* the texts a user types into the input boxes of an element
PanelInputs == {<<"1">>, <<"{">>}
InputValues(index) ==
  IF index + 1 \in DOMAIN Dom
  THEN [1..Len(InputsIn(index)) -> PanelInputs]
  ELSE {<<>>}

\* webviewProvider.ts:782-877, executeFunction of the webview: the execute
\* button with data-index `index` is pressed, the input boxes hold `values`
PressExecute(index, values) ==
  LET func == FunctionAt(index)
      found == IF IsMethodOfClass(func) THEN MethodAt(index) ELSE ItemAt(index)
      inputs == InputsIn(index)
      args == [k \in 1..Len(inputs) |-> [value |-> Trim(values[k]), type |-> inputs[k].type]]
      hasError == \E k \in 1..Len(inputs) : ~validateInput(args[k].value, args[k].type)
  IN /\ ButtonVisible(index)
     /\ Len(outbox) < MaxOutbox
     /\ IF currentFunction = NoFunction \/ ~found \/ hasError
        THEN UNCHANGED <<outbox, panels, functionHistory>>
        ELSE IF IsMethodOfClass(func) /\ <<func.className>> \notin classInstances
        THEN /\ panels' = [panels EXCEPT ![index + 1] = [state |-> "message"]]
             /\ UNCHANGED <<outbox, functionHistory>>
        ELSE /\ panels' = [panels EXCEPT ![index + 1] = [state |-> "loading"]]
             /\ saveToHistory([functionName |-> currentFunction.name, args |-> args,
                               timestamp |-> clock])
             /\ outbox' = Append(outbox, [type |-> "executeFunction",
                                          functionName |-> currentFunction.name,
                                          arguments |-> args,
                                          index |-> index,
                                          shown |-> Dom[index + 1].func.name])
     /\ UNCHANGED <<functions, currentFunction, expanded, shownMethods, classInstances>>
     /\ UNCHANGED <<handling, selection>>
     /\ UNCHANGED <<executorVars, extensionVars, coerced, providerVars, inbox>>

\* webviewProvider.ts:14-40: the view is shown for the first time
ResolveWebviewView ==
  /\ ~view
  /\ view' = TRUE
  /\ IF pendingFunctions.defined
     THEN /\ Post(UpdateMessage(pendingFunctions.list))
          /\ pendingFunctions' = NoList
     ELSE UNCHANGED <<inbox, pendingFunctions>>
  /\ UNCHANGED offered
  /\ UNCHANGED <<executorVars, extensionVars, coerced, hostVars, webviewVars>>

\* extension.ts:175: currentFunctions.find(f => f.name === functionName)
Find(functionName) ==
  LET at == {k \in 1..Len(currentFunctions) : currentFunctions[k].name = functionName}
  IN IF at = {} THEN NoFunction
     ELSE currentFunctions[CHOOSE k \in at : \A j \in at : k <= j]

\* webviewProvider.ts:66-73 with the result object of extension.ts:177-181,
\* 203-206 and 208-212; `for` is the function the request named
ResultMessage(success, value, message) ==
  [type |-> "executionResult",
   result |-> [success |-> success, result |-> value, index |-> message.index,
               for |-> message.functionName]]

Precedes(d, e) == d = "c1" \/ e = "c2"

\* the call context the next execution gets
FreeCall ==
  IF \E d \in Calls : calls[d].pc = "IDLE" /\ handling[d] = NoMessage
  THEN CHOOSE d \in Calls : /\ calls[d].pc = "IDLE" /\ handling[d] = NoMessage
                            /\ \A e \in Calls : calls[e].pc = "IDLE" /\ handling[e] = NoMessage
                                                  => Precedes(d, e)
  ELSE "none"

\* extension.ts:135-137, 168-200: the handler takes an executeFunction
\* message and runs up to the first await of executeFunction
HandleExecute(c) ==
  /\ outbox # <<>>
  /\ Head(outbox).type = "executeFunction"
  /\ outbox' = Tail(outbox)
  /\ LET message == Head(outbox)
         functionInfo == Find(message.functionName)
     IN IF functionInfo = NoFunction
        THEN /\ running = "none"
             /\ Len(inbox) < MaxInbox
             /\ Post(ResultMessage(FALSE, NoValue, message))
             /\ UNCHANGED <<executorVars, handling>>
        ELSE /\ Cardinality({d \in Calls : handling[d] # NoMessage}) < MaxConcurrent
             /\ c = FreeCall
             /\ StartCall(c, [functionCode |-> functionInfo.fullText,
                              functionName |-> message.functionName,
                              argsWithTypes |-> message.arguments,
                              isAsync |-> functionInfo.isAsync,
                              testArgs |-> <<>>])
             /\ handling' = [handling EXCEPT ![c] = message]
             /\ UNCHANGED inbox
  /\ UNCHANGED selection
  /\ UNCHANGED <<extensionVars, coerced, providerVars, webviewVars>>

\* extension.ts:202-213: executeFunction has settled, the handler sends
\* the result to the panel
Reply(c) ==
  /\ calls[c].pc \in {"DONE", "FAILED"}
  /\ handling[c] # NoMessage
  /\ Len(inbox) < MaxInbox
  /\ IF calls[c].outcome.kind = "returned" /\ calls[c].outcome.success
     THEN Post(ResultMessage(TRUE, calls[c].outcome.result, handling[c]))
     ELSE Post(ResultMessage(FALSE, NoValue, handling[c]))
  /\ calls' = [calls EXCEPT ![c] = IdleCall]
  /\ handling' = [handling EXCEPT ![c] = NoMessage]
  /\ UNCHANGED <<running, clock, hostMath, outbox, selection>>
  /\ UNCHANGED <<extensionVars, coerced, providerVars, webviewVars>>

\* extension.ts:138-139, 146-163: the handler takes a jumpToDefinition message
HandleJump ==
  /\ outbox # <<>>
  /\ Head(outbox).type = "jumpToDefinition"
  /\ running = "none"
  /\ outbox' = Tail(outbox)
  /\ selection' =
       IF activeEditor = NoEditor \/ Find(Head(outbox).functionName) = NoFunction
       THEN selection
       ELSE Find(Head(outbox).functionName).startLine - 1
  /\ UNCHANGED handling
  /\ UNCHANGED <<executorVars, extensionVars, coerced, providerVars, inbox, webviewVars>>

\* the documents of the session: g and f; class Q and f; class Q; a text
\* file
Doc(ixs) == [languageId |-> "typescript", text |-> BuildFile(ixs, 0).text]
PanelDocuments == {Doc(<<2, 1>>), Doc(<<8, 1>>), Doc(<<8>>), PlainDocument}

\* executions asked for in a session of the panel
MaxRuns == 1
RECURSIVE CountRecords(_)
CountRecords(names) ==
  IF names = {} THEN 0
  ELSE LET n == CHOOSE x \in names : TRUE
       IN Len(functionHistory[n]) + CountRecords(names \ {n})
RecordCount == CountRecords(DOMAIN functionHistory)

\* No function of these documents returns a function, so no execution
\* reaches the follow-up invocation.
PanelNext ==
  \/ \E d \in PanelDocuments : ChangeActiveTextEditor(d)
  \/ \E d \in PanelDocuments : ChangeTextDocument(d)
  \/ ResolveWebviewView
  \/ Deliver
  \/ \E index \in 0..(Len(panels) - 1) : ClickHeader(index)
  \/ \E index \in 0..(Len(panels) - 1) : ClickMethodName(index)
  \/ \E index \in 0..(Len(panels) - 1) : ClickFunctionName(index)
  \/ \E index \in 0..(Len(panels) - 1) :
       RecordCount < MaxRuns /\ PressExecute(index, [k \in 1..Len(InputsIn(index)) |-> <<"1">>])
  \/ \E c \in Calls : HandleExecute(c)
  \/ HandleJump
  \/ \E c \in Calls : RunDefinition(c)
  \/ \E c \in Calls : MaterialiseArgs(c)
  \/ \E c \in Calls : InvokePrimary(c)
  \/ \E c \in Calls : ResumePrimary(c)
  \/ \E c \in Calls : CheckFollowUp(c)
  \/ \E c \in Calls : Finish(c)
  \/ \E c \in Calls : Reply(c)

PanelSpec == Init /\ [][PanelNext]_vars

\* The provider alone: the editor changes while the view is hidden or shown
ProviderNext ==
  \/ \E d \in PanelDocuments : ChangeActiveTextEditor(d)
  \/ \E d \in PanelDocuments : ChangeTextDocument(d)
  \/ ResolveWebviewView
  \/ Deliver
  \/ \E index \in 0..(Len(panels) - 1) : ClickHeader(index)

ProviderSpec == Init /\ [][ProviderNext]_vars

\* A session in which the document with class R and its method n(x) is
\* opened once and executions are asked for again and again, with valid and
\* invalid input, while time passes
HistoryDocument == [languageId |-> "typescript", text |-> RFile.text]

\* records the histories of the session hold together
MaxRecords == 4

\* No execution of this document returns a value: a class is not callable
\* without new and the text of a method is no script.
HistoryNext ==
  \/ activeEditor = NoEditor /\ ChangeActiveTextEditor(HistoryDocument)
  \/ ResolveWebviewView
  \/ Deliver
  \/ \E index \in 0..(Len(panels) - 1) : ClickHeader(index)
  \/ \E index \in 0..(Len(panels) - 1) : ClickMethodName(index)
  \/ \E index \in 0..(Len(panels) - 1) : \E values \in InputValues(index) :
       RecordCount < MaxRecords /\ PressExecute(index, values)
  \/ \E c \in Calls : HandleExecute(c)
  \/ \E c \in Calls : RunDefinition(c)
  \/ \E c \in Calls : MaterialiseArgs(c)
  \/ \E c \in Calls : InvokePrimary(c)
  \/ \E c \in Calls : Finish(c)
  \/ \E c \in Calls : Reply(c)
  \/ Tick

HistorySpec == Init /\ [][HistoryNext]_vars

\* A session on a document with f and with a function whose promise never
\* settles
HangDocument == [languageId |-> "typescript", text |-> HangFile.text]

PanelLiveNext ==
  \/ ChangeActiveTextEditor(HangDocument)
  \/ ResolveWebviewView
  \/ Deliver
  \/ \E index \in 0..(Len(panels) - 1) : ClickHeader(index)
  \/ \E index \in 0..(Len(panels) - 1) : PressExecute(index, <<>>)
  \/ \E c \in Calls : HandleExecute(c)
  \/ \E c \in Calls : RunDefinition(c)
  \/ \E c \in Calls : MaterialiseArgs(c)
  \/ \E c \in Calls : InvokePrimary(c)
  \/ \E c \in Calls : CheckFollowUp(c)
  \/ \E c \in Calls : Finish(c)
  \/ \E c \in Calls : Reply(c)

\* The extension host takes every message the webview posts, and the
\* continuation of handleFunctionExecution runs once executeFunction has
\* settled (extension.ts:193-206); the webview takes every message posted
\* to it.
HandlerLoop ==
  /\ \A c \in Calls : WF_vars(HandleExecute(c)) /\ SF_vars(Reply(c))
  /\ WF_vars(Deliver)

PanelLiveSpec == Init /\ [][PanelLiveNext]_vars /\ EventLoop /\ HandlerLoop

\* ------------------------------------------------------------------------
\* Calls of parseArgumentValue
\* ------------------------------------------------------------------------
R_newMap == <<"n", "e", "w", " ", "M", "a", "p", "(", ")">>
R_newFoo == <<"n", "e", "w", " ", "F", "o", "o", "(", ")">>
R_arrow == <<"x", "=", ">", "x", "*", "2">>
R_typedArrow == <<"(", "x", ":", "T", ")", "=", ">", "x">>
R_openArrow == <<"(", "x", ")", "=", ">", "{">>
R_noBody == <<"x", "=", ">">>
R_arrowString == <<"'", "=", ">", "'">>
R_prefixedArrow == <<"f", "(", "x", ")", "=", ">", "x">>
R_functionArray == <<"[", "x", "=", ">", "x", "]">>
R_openArray == <<"[", "x", "=", ">">>
R_badJson == <<"[", "1", ",">>

\* the argument texts parseArgumentValue is called with
CoercionValues ==
  {<<>>, R_blank, R_abc, R_json, R_objLit, R_arr123, R_badJson, T_true, T_null, T_undefined,
   T_NaN, R_ten, R_newMap, R_newFoo, R_arrow, R_typedArrow, R_openArrow, R_noBody,
   R_arrowString, R_prefixedArrow, R_functionArray, R_openArray, R_colonStr, T_function}

\* the declared parameter types it is called with
CoercionTypes ==
  {<<"n", "u", "m", "b", "e", "r">>,
   <<"s", "t", "r", "i", "n", "g">>,
   <<"a", "n", "y">>,
   T_Date,
   <<"(", "x", ")", "=", ">", "T">>,
   <<"F", "n", "<", "T", ">">>}

\* part_001:320: one call of parseArgumentValue and what it returned
ParseArgument(value, type) ==
  /\ coerced' = [value |-> value, type |-> type, called |-> TRUE,
                 result |-> parseArgumentValue(value, type)]
  /\ UNCHANGED <<executorVars, extensionVars, panelVars>>

CoercionNext == \E value \in CoercionValues, type \in CoercionTypes : ParseArgument(value, type)

CoercionSpec == Init /\ [][CoercionNext]_vars

\* ------------------------------------------------------------------------
\* Properties
\* ------------------------------------------------------------------------
Terminal(c) == calls[c].pc \in {"DONE", "FAILED"}

\* the lifecycle state of the specification that a position belongs to
Phase(call) ==
  CASE call.pc = "IDLE" -> "IDLE"
    [] call.pc = "DEFINING" -> "DEFINING"
    [] call.pc \in {"MATERIALISING", "INVOKING", "AWAIT_PRIMARY", "CHECK_FOLLOWUP"} -> "INVOKING"
    [] call.pc \in {"FOLLOWUP_INVOKING", "AWAIT_FOLLOWUP"} -> "FOLLOWUP_INVOKING"
    [] call.pc = "AWAIT_SCRIPT" ->
         IF call.followCalls > 0 THEN "FOLLOWUP_INVOKING" ELSE "INVOKING"
    [] call.pc = "DONE" -> "DONE"
    [] call.pc = "FAILED" -> "FAILED"

\* the arguments have been materialised
Materialised(c) ==
  /\ calls[c].pc \notin {"IDLE", "DEFINING", "MATERIALISING"}
  /\ calls[c].failedAt \notin {"DEFINING", "MATERIALISING"}

RawArg(c, i) == calls[c].req.argsWithTypes[i].value

\* C1: whatever fails during an executeFunction call, the call returns
\* normally with {success: false, error, executionTime >= 0}; it never
\* throws or rejects.
C1_NeverRaises ==
  \A c \in Calls :
    Terminal(c) =>
      /\ calls[c].outcome.kind = "returned"
      /\ calls[c].outcome.executionTime >= 0
      /\ calls[c].pc = "FAILED" => ~calls[c].outcome.success

\* C2: the outcome of a call depends only on its own source text, entry
\* name and arguments: two finished calls of the same request have the same
\* outcome, whatever other calls did before or in between.
C2_CallsIsolated ==
  \A c1, c2 \in Calls :
    (Terminal(c1) /\ Terminal(c2) /\ calls[c1].req = calls[c2].req
       /\ calls[c1].outcome.kind = "returned" /\ calls[c2].outcome.kind = "returned") =>
      /\ calls[c1].outcome.success = calls[c2].outcome.success
      /\ calls[c1].outcome.success => calls[c1].outcome.result = calls[c2].outcome.result
      /\ ~calls[c1].outcome.success => calls[c1].outcome.error = calls[c2].outcome.error

\* one step of the lifecycle of call c
LifecycleStep(c) ==
  LET p == Phase(calls[c])
      q == Phase(calls'[c])
      wanted == IsCallable(calls'[c].tested) /\ Len(Trim(calls'[c].req.testArgs)) > 0
  IN /\ p # q =>
          \/ p = "IDLE" /\ q = "DEFINING"
          \/ p = "DEFINING" /\ q \in {"INVOKING", "FAILED"}
          \/ p = "INVOKING" /\ q \in {"FOLLOWUP_INVOKING", "DONE", "FAILED"}
          \/ p = "FOLLOWUP_INVOKING" /\ q \in {"DONE", "FAILED"}
          \/ p \in {"DONE", "FAILED"} /\ q = "IDLE"
     /\ (p = "INVOKING" /\ q = "FOLLOWUP_INVOKING") => wanted
     /\ (p = "INVOKING" /\ q = "DONE") => ~wanted
     /\ (p = "DEFINING" /\ q = "INVOKING") => calls'[c].failedAt = "none"
     /\ (p \in {"DONE", "FAILED"} /\ q = p) => calls'[c].outcome = calls[c].outcome
     /\ q \in {"DONE", "FAILED"} => calls'[c].outcome.kind = "returned"
     /\ q \notin {"DONE", "FAILED"} => calls'[c].outcome.kind = "none"

\* C3: every call follows IDLE -> DEFINING -> INVOKING -> DONE, passing
\* through FOLLOWUP_INVOKING exactly when the primary result is callable and
\* a follow-up was supplied; FAILED is entered only from DEFINING, INVOKING
\* or FOLLOWUP_INVOKING; DONE and FAILED are terminal and each yields exactly
\* one normal outcome.
C3_Lifecycle == [][\A c \in Calls : LifecycleStep(c)]_vars

\* C4: from Phase 1 on, the context holds only the allow-listed host
\* capabilities and the names the source declares; evaluated code reaches
\* none of the engine's working data and nothing of the outer process.
C4_ContextRestricted ==
  \A c \in Calls :
    calls[c].pc # "IDLE" =>
      /\ calls[c].names \subseteq (createSandbox \cup {calls[c].binding.name})
      /\ calls[c].names \cap EngineNames = {}
      /\ calls[c].names \cap HostRealmNames = {}

\* the request runs a descriptor of the extractor: its own source text under
\* its own name
FromDescriptor(req) ==
  \E i \in 1..Len(MainFunctions) :
    /\ req.functionCode = MainFunctions[i].fullText
    /\ req.functionName = MainFunctions[i].name

\* C5: executing any descriptor the extractor emits, with its own source
\* text and name, defines the callable and invokes it.
C5_DescriptorsInvoked ==
  \A c \in Calls :
    (Terminal(c) /\ FromDescriptor(calls[c].req)) => calls[c].invoked = 1

\* the follow-up condition of the claim: callable primary result and a
\* follow-up string that is neither empty nor blank
FollowUpExpected(call) ==
  IsCallable(call.tested) /\ Len(Trim(call.req.testArgs)) > 0

\* C6: when the primary result is callable and a non-blank follow-up string
\* was supplied, the returned callable is invoked once with the materialised
\* follow-up values and the outcome carries the inner result
\* (createMultiplier, 5, follow-up 10 gives 50); otherwise no follow-up call
\* is made and the outcome carries the primary result.
C6_FollowUp ==
  \A c \in Calls :
    LET call == calls[c] IN
    /\ call.followCalls <= 1
    /\ call.followCalls = 1 => FollowUpExpected(call)
    /\ (call.pc = "DONE" /\ FollowUpExpected(call)) =>
         /\ call.followCalls = 1
         /\ call.outcome.result = serializeResult(call.result).v
    /\ (call.pc = "DONE" /\ call.tested # NoValue /\ ~FollowUpExpected(call)) =>
         /\ call.followCalls = 0
         /\ call.outcome.result =
              serializeResult(IF IsThenable(call.tested) THEN call.tested.pv ELSE call.tested).v
    /\ (call.pc = "DONE"
          /\ call.req = ExecRequest(<<"createMultiplier">>, <<A(<<"5">>, "number")>>, R_ten)) =>
         /\ call.followArgs = <<VNum(10)>>
         /\ call.outcome.success
         /\ call.outcome.result = VNum(50)

C6_Witness ==
  \E c \in Calls :
    /\ calls[c].pc = "DONE"
    /\ calls[c].req = ExecRequest(<<"createMultiplier">>, <<A(<<"5">>, "number")>>, R_ten)
    /\ calls[c].followCalls = 1
    /\ calls[c].outcome.result = VNum(50)

\* the syntax tree's answer to "is the final parameter of this entry a rest
\* parameter"
FinalParameterIsRest(functionName) ==
  \E i \in 1..Len(DocNodes) :
    /\ DocNodes[i].kind = "FunctionDeclaration"
    /\ <<DocNodes[i].name>> = functionName
    /\ Len(DocNodes[i].parameters) > 0
    /\ DocNodes[i].parameters[Len(DocNodes[i].parameters)].rest

\* C7: a single materialised sequence is spread as the argument list exactly
\* when the callable's final parameter is a rest parameter, one argument was
\* supplied and it materialises to a sequence; otherwise the materialised
\* arguments are passed positionally, unchanged (add, 2, 3 gives 5).
C7_SpreadOnlyForRest ==
  \A c \in Calls :
    /\ calls[c].invoked = 1 =>
         calls[c].actualArgs =
           IF /\ FinalParameterIsRest(calls[c].req.functionName)
              /\ Len(calls[c].parsedArgs) = 1
              /\ IsArray(calls[c].parsedArgs[1])
           THEN calls[c].parsedArgs[1].a
           ELSE calls[c].parsedArgs
    /\ (calls[c].pc = "DONE" /\ calls[c].req.functionName = <<"add">>) =>
         calls[c].outcome.result = VNum(5)

Keywords == {T_true, T_false, T_null, T_undefined, T_NaN}

KeywordValue(text) ==
  CASE text = T_true -> VBool(TRUE)
    [] text = T_false -> VBool(FALSE)
    [] text = T_null -> VNull
    [] text = T_undefined -> VUndef
    [] text = T_NaN -> VNaN

\* C9: a raw text that is exactly true, false, null, undefined or NaN is
\* materialised as the corresponding literal value, whatever the declared
\* type of the argument.
C9_KeywordLiterals ==
  \A c \in Calls :
    Materialised(c) =>
      \A i \in 1..Len(calls[c].req.argsWithTypes) :
        RawArg(c, i) \in Keywords => calls[c].parsedArgs[i] = KeywordValue(RawArg(c, i))

C9_Witness ==
  \E c \in Calls :
    /\ calls[c].pc = "DONE"
    /\ calls[c].req.argsWithTypes = <<A(T_true, "string"), A(T_NaN, "number")>>
    /\ calls[c].parsedArgs = <<VBool(TRUE), VNaN>>
    /\ calls[c].outcome.result = VArr(<<VBool(TRUE), VNull>>)

IsWrappedIn(s, q) == StartsWith(s, <<q>>) /\ EndsWith(s, <<q>>)

\* no step of the chain coerces the raw text
Uncoercible(value) ==
  LET trimmed == Trim(value) IN
  /\ Len(trimmed) > 0
  /\ ~EvalExpr(CodeToEval(trimmed)).ok
  /\ ~JSONParse(trimmed).ok
  /\ trimmed \notin (Keywords \cup {T_Infinity})
  /\ IsNaNValue(ToNumber(trimmed))
  /\ ~IsWrappedIn(trimmed, "'")
  /\ ~IsWrappedIn(trimmed, "\"")

\* the materialisation has run (or failed)
PastMaterialising(c) ==
  /\ calls[c].pc \notin {"IDLE", "DEFINING", "MATERIALISING"}
  /\ calls[c].failedAt # "DEFINING"

\* C10: an argument that no step of the chain can coerce is materialised as
\* the raw text itself; materialising never fails the call, and the
\* invocation takes place with the other arguments unaffected.
C10_OpaqueRawText ==
  \A c \in Calls :
    PastMaterialising(c) =>
      /\ calls[c].failedAt # "MATERIALISING"
      /\ \A i \in 1..Len(calls[c].req.argsWithTypes) :
           Uncoercible(RawArg(c, i)) => calls[c].parsedArgs[i] = VStr(RawArg(c, i))

\* C10 as amended: such an argument is materialised as the raw text without
\* its leading and trailing whitespace; materialising never fails the call,
\* and the invocation takes place with the other arguments unaffected.
C10_OpaqueTrimmedText ==
  \A c \in Calls :
    PastMaterialising(c) =>
      /\ calls[c].failedAt # "MATERIALISING"
      /\ \A i \in 1..Len(calls[c].req.argsWithTypes) :
           Uncoercible(RawArg(c, i)) => calls[c].parsedArgs[i] = VStr(Trim(RawArg(c, i)))
      /\ (Terminal(c) /\ calls[c].req.functionName = <<"pair">>) =>
           /\ calls[c].invoked = 1
           /\ calls[c].actualArgs = calls[c].parsedArgs
           /\ calls[c].pc = "DONE"
      /\ (Terminal(c) /\ calls[c].req.argsWithTypes = <<A(T_false, "any"), A(R_abc, "string")>>) =>
           calls[c].outcome.result = VArr(<<VBool(FALSE), VStr(<<"a", "b", "c", " ", "d", "e", "f">>)>>)
      /\ (Terminal(c) /\ calls[c].req.argsWithTypes = <<A(R_objLit, "object"), A(<<"7">>, "number")>>) =>
           calls[c].outcome.result = VArr(<<VStr(R_objLit), VNum(7)>>)

C10_Witness ==
  \E c1, c2 \in Calls :
    /\ calls[c1].pc = "DONE"
    /\ calls[c1].req.argsWithTypes = <<A(R_objLit, "object"), A(<<"7">>, "number")>>
    /\ calls[c1].outcome.result = VArr(<<VStr(R_objLit), VNum(7)>>)
    /\ calls[c2].pc = "DONE"
    /\ calls[c2].req.argsWithTypes = <<A(T_false, "any"), A(R_abc, "string")>>
    /\ calls[c2].parsedArgs[2] = VStr(<<"a", "b", "c", " ", "d", "e", "f">>)

\* the value the execution script's promise resolved to, after an awaitable
\* it returned has been waited for (part_001:184-189)
FinalValue(call) ==
  IF IsThenable(call.settled.v) THEN call.settled.v.pv ELSE call.settled.v

Primitives == {"number", "string", "boolean", "NaN", "Infinity"}

Parsed == activeEditor.languageId = "typescript" /\ parseResult = "returned"

\* the syntax tree of the active editor's text
ActiveFile == createSourceFile(activeEditor.text)

IsFunctionBinding(declaration) ==
  declaration.initializer \in {"ArrowFunction", "FunctionExpression"}

\* no class and no function-valued variable binding among the statements
NoClassNoBinding(statements) ==
  \A i \in 1..Len(statements) :
    /\ statements[i].kind # "ClassDeclaration"
    /\ statements[i].kind = "VariableStatement" =>
         \A j \in 1..Len(statements[i].declarations) :
            ~IsFunctionBinding(statements[i].declarations[j])

\* every statement at any depth, in the order in which the statements start
RECURSIVE Flatten(_)
Flatten(statements) ==
  IF Len(statements) = 0 THEN <<>>
  ELSE <<statements[1]>> \o Flatten(Children(statements[1])) \o Flatten(Tail(statements))

IsFunctionDeclaration(node) == node.kind = "FunctionDeclaration"

\* C12 as stated: a text with N named top-level function declarations, no
\* classes and no function-valued variable bindings at top level yields
\* exactly N descriptors, one per top-level declaration, in declaration order.
C12_TopLevelDeclarations ==
  LET tops == SelectSeq(ActiveFile.statements, IsFunctionDeclaration)
  IN (Parsed /\ NoClassNoBinding(ActiveFile.statements)) =>
       /\ Len(currentFunctions) = Len(tops)
       /\ \A i \in 1..Len(tops) :
            /\ currentFunctions[i].name = <<tops[i].name>>
            /\ currentFunctions[i].fullText = GetText(tops[i], ActiveFile)

\* C12 amended: a text without classes and function-valued variable
\* bindings at any depth yields exactly one descriptor per named function
\* declaration at any depth, in the order in which the declarations start;
\* the descriptors are the N top-level ones when no declaration is nested.
C12_EveryDeclaration ==
  LET all == SelectSeq(Flatten(ActiveFile.statements), IsFunctionDeclaration)
      tops == SelectSeq(ActiveFile.statements, IsFunctionDeclaration)
  IN (Parsed /\ NoClassNoBinding(Flatten(ActiveFile.statements))) =>
       /\ Len(currentFunctions) = Len(all)
       /\ \A i \in 1..Len(all) :
            /\ currentFunctions[i].name = <<all[i].name>>
            /\ currentFunctions[i].fullText = GetText(all[i], ActiveFile)
            /\ ~currentFunctions[i].isClass
       /\ all = tops => Len(currentFunctions) = Len(tops)

\* the text "function outer() { function inner() {..} .. }  function f() {..}"
\* has been parsed: three descriptors for two top-level declarations
C12_Witness ==
  /\ Parsed
  /\ activeEditor.text = S_outer.text \o <<"\n">> \o S_f.text \o <<"\n">>
  /\ Len(currentFunctions) = 3
  /\ currentFunctions[1].name = <<"outer">>
  /\ currentFunctions[2].name = <<"inner">>
  /\ currentFunctions[3].name = <<"f">>

Nodes(sourceFile) ==
  {Flatten(sourceFile.statements)[i] : i \in 1..Len(Flatten(sourceFile.statements))}

IsMethod(member) == member.kind = "MethodDeclaration"

HasConstructor(class) ==
  \E i \in 1..Len(class.members) : class.members[i].kind = "Constructor"

\* the 1-based line a position of the active file is on
LineOf(p) == LineOfPosition(ActiveFile, p) + 1

\* C13: for every class declaration with a constructor and M methods there
\* is one constructor-kind descriptor, named after the class and with the
\* class name as return type, immediately followed by exactly M method
\* descriptors in declaration order, each named ClassName.method.
C13_ClassDescriptors ==
  Parsed =>
    \A n \in Nodes(ActiveFile) :
      (n.kind = "ClassDeclaration" /\ HasConstructor(n)) =>
        LET methods == SelectSeq(n.members, IsMethod)
            M == Len(methods)
        IN \E k \in 1..Len(currentFunctions) :
             /\ currentFunctions[k].isClass
             /\ currentFunctions[k].name = <<n.name>>
             /\ currentFunctions[k].returnType = n.name
             /\ currentFunctions[k].startLine = LineOf(n.pos)
             /\ k + M <= Len(currentFunctions)
             /\ \A i \in 1..M :
                  /\ currentFunctions[k + i].name = <<n.name, ".", methods[i].name>>
                  /\ currentFunctions[k + i].className = n.name
                  /\ currentFunctions[k + i].startLine = LineOf(methods[i].pos)
                  /\ ~currentFunctions[k + i].isClass
             /\ k + M + 1 <= Len(currentFunctions) =>
                  currentFunctions[k + M + 1].className # n.name

\* class P (a constructor, methods a and b, a function declared inside a)
\* followed by function f has been parsed
C13_Witness ==
  /\ Parsed
  /\ activeEditor.text = S_P.text \o <<"\n">> \o S_f.text \o <<"\n">>
  /\ Len(currentFunctions) = 5
  /\ currentFunctions[1].isClass
  /\ currentFunctions[2].name = <<"P", ".", "a">>
  /\ currentFunctions[3].name = <<"P", ".", "b">>
  /\ currentFunctions[4].name = <<"inner2">>

\* C14 as stated: of any two descriptors of one parseFunctions call, the one
\* whose declaration starts earlier in the source comes first.
C14_DocumentOrder ==
  Parsed =>
    \A i, j \in 1..Len(currentFunctions) :
      i < j => currentFunctions[i].startLine <= currentFunctions[j].startLine

\* descriptor d is one of node n's own: a method of class n, or a binding of
\* variable statement n
Owns(n, d) ==
  \/ /\ n.kind = "ClassDeclaration"
     /\ d.className = n.name
     /\ \E i \in 1..Len(n.members) :
          IsMethod(n.members[i]) /\ d.startLine = LineOf(n.members[i].pos)
  \/ /\ n.kind = "VariableStatement"
     /\ \E i \in 1..Len(n.declarations) :
          /\ d.name = <<n.declarations[i].name>>
          /\ d.startLine = LineOf(n.declarations[i].pos)

\* descriptor d is of a declaration nested in a member or initializer of n
NestedIn(n, d) ==
  /\ n.kind \in {"ClassDeclaration", "VariableStatement"}
  /\ \E i \in 1..Len(Flatten(Children(n))) :
       LET x == Flatten(Children(n))[i]
       IN d.startLine = LineOf(x.pos) /\ d.endLine = LineOf(x.end)

\* C14 amended: the descriptors of one call are in document order, except
\* that the descriptor of a declaration nested inside a member of a class or
\* inside an initializer of a variable statement comes after all method
\* descriptors of that class and all binding descriptors of that statement.
C14_OrderAmended ==
  Parsed =>
    \A i, j \in 1..Len(currentFunctions) :
      i < j =>
        \/ currentFunctions[i].startLine <= currentFunctions[j].startLine
        \/ \E n \in Nodes(ActiveFile) :
             Owns(n, currentFunctions[i]) /\ NestedIn(n, currentFunctions[j])

\* class P has been parsed: method b (line 7) comes before inner2 (line 4),
\* which is declared inside method a
C14_Witness ==
  /\ Parsed
  /\ activeEditor.text = S_P.text \o <<"\n">>
  /\ Len(currentFunctions) = 4
  /\ currentFunctions[3].name = <<"P", ".", "b">>
  /\ currentFunctions[4].name = <<"inner2">>
  /\ currentFunctions[4].startLine < currentFunctions[3].startLine

\* C15: when the text cannot be parsed as a program, parseFunctions fails
\* with a syntax failure reported to its caller instead of returning a list.
C15_SyntaxFailure ==
  (activeEditor.languageId = "typescript" /\ ActiveFile.parseDiagnostics > 0) =>
    parseResult = "threw"

\* the full text of a class declaration named name of the active file
ClassTexts(name) ==
  {GetText(n, ActiveFile) :
     n \in {x \in Nodes(ActiveFile) : x.kind = "ClassDeclaration" /\ x.name = name}}

\* C16: every descriptor's source text suffices to define its callable again
\* standalone; the source text of a constructor descriptor and of every
\* method descriptor is the full class declaration.
C16_ClassSourceText ==
  Parsed =>
    \A i \in 1..Len(currentFunctions) :
      LET d == currentFunctions[i]
      IN /\ RunScript(transpileDeclaration(d.fullText)).ok
         /\ d.isClass => d.fullText \in ClassTexts(d.name[1])
         /\ d.className # "" => d.fullText \in ClassTexts(d.className)

\* the text the last parseArgumentValue call worked on
Coerced == Trim(coerced.value)

\* the structured-data step was taken for the last call and failed
LiteralFailed ==
  /\ coerced.called
  /\ StartsWith(Coerced, <<"{">>) \/ StartsWith(Coerced, <<"[">>)
  /\ ~JSONParse(Coerced).ok
  /\ ~EvalExpr(JsCode(Coerced)).ok

\* no step before the constructor-call step returned for the last call
BeforeConstruction ==
  /\ coerced.called
  /\ Len(Coerced) > 0
  /\ ~StartsWith(Coerced, <<"{">>) /\ ~StartsWith(Coerced, <<"[">>)
  /\ Coerced \notin {T_true, T_false, T_null, T_undefined, T_NaN, T_Infinity}
  /\ ~(Includes(coerced.type, T_Date) /\ IsValidDate(Coerced))

\* the constructor-call step was taken for the last call and failed
ConstructionFailed ==
  BeforeConstruction /\ StartsWith(Coerced, T_new) /\ ~EvalExpr(Coerced).ok

\* the function step was taken for the last call and gave no function
NoFunctionYielded ==
  /\ BeforeConstruction
  /\ ~StartsWith(Coerced, T_new)
  /\ IsFunctionType(coerced.type)
  /\ ~(coerced.result.ok /\ IsCallable(coerced.result.v))

\* C17 as stated: parseArgumentValue never signals an error, and when a
\* conversion step fails (a structured-data literal that does not parse, a
\* constructor call that cannot be evaluated, a function-typed parameter
\* whose text yields no function) it returns the trimmed raw text.
C17_RawTextOnFailure ==
  coerced.called =>
    /\ coerced.result.ok
    /\ (LiteralFailed \/ ConstructionFailed \/ NoFunctionYielded) =>
         coerced.result.v = VStr(Coerced)

\* C17 amended: parseArgumentValue never signals an error; a structured-data
\* literal that does not parse gives the trimmed raw text; a constructor
\* call that cannot be evaluated gives null, and so does a function-typed
\* parameter whose text yields no function.
C17_FailureAmended ==
  coerced.called =>
    /\ coerced.result.ok
    /\ LiteralFailed => coerced.result.v = VStr(Coerced)
    /\ ConstructionFailed => coerced.result.v = VNull
    /\ NoFunctionYielded => coerced.result.v = VNull

\* `new Foo()` has been coerced for an undefined Foo: the result is null
C17_Witness ==
  /\ coerced.called
  /\ coerced.value = R_newFoo
  /\ ConstructionFailed
  /\ coerced.result = Ok(VNull)

\* C18: every execute request eventually produces an outcome, also when the
\* callable returns a promise that never settles (the documented 30 second
\* limit).
C18_EventuallyOutcome ==
  \A c \in Calls : (calls[c].pc = "DEFINING") ~> Terminal(c)

\* C19: within one call the source text is evaluated exactly once, the entry
\* is invoked at most once and a returned callable at most once; no phase
\* runs again after a failure, and a callable returned by the follow-up
\* call is not called.
C19_NoRerun ==
  \A c \in Calls :
    /\ calls[c].evaluated <= 1
    /\ calls[c].pc \notin {"IDLE", "DEFINING"} => calls[c].evaluated = 1
    /\ calls[c].invoked <= 1
    /\ calls[c].followCalls <= 1
    /\ calls[c].failedAt # "none" => calls[c].pc \in {"AWAIT_SCRIPT", "FAILED"}
    /\ calls[c].followCalls = 1 => calls[c].invoked = 1
    /\ calls[c].invoked = 1 => calls[c].evaluated = 1

\* curry(1) with the follow-up string "2" is done: the follow-up call
\* returned a callable, which was not called
C19_Witness ==
  \E c \in Calls :
    /\ calls[c].pc = "DONE"
    /\ calls[c].req.functionName = <<"curry">>
    /\ calls[c].evaluated = 1
    /\ calls[c].invoked = 1
    /\ calls[c].followCalls = 1
    /\ IsCallable(FinalValue(calls[c]))

\* The value the first matching step of the chain gives for a raw text:
\* blank; expression; structured data; keyword; number; outer quotes; and the
\* opaque string `opaque` when no step matches.
ChainValue(raw, opaque) ==
  LET text == Trim(raw) IN
  IF Len(text) = 0 THEN VUndef
  ELSE IF EvalExpr(CodeToEval(text)).ok THEN EvalExpr(CodeToEval(text)).v
  ELSE IF (StartsWith(text, <<"{">>) \/ StartsWith(text, <<"[">>)) /\ JSONParse(text).ok
    THEN JSONParse(text).v
  ELSE IF text \in Keywords THEN KeywordValue(text)
  ELSE IF text = T_Infinity THEN VInf
  ELSE IF ~IsNaNValue(ToNumber(text)) THEN ToNumber(text)
  ELSE IF IsWrappedIn(text, "'") \/ IsWrappedIn(text, "\"") THEN VStr(SliceInner(text))
  ELSE VStr(opaque)

\* C20 as stated: each argument is materialised on its own, in order, by
\* the first matching step: blank gives the missing value; else the
\* (annotation-stripped) text is evaluated as an expression; when that
\* fails: strict structured data for { or [, the literal keywords, numeric
\* coercion, stripping of matching outer quotes, finally the raw text.
C20_ChainRawText ==
  \A c \in Calls :
    PastMaterialising(c) =>
      /\ Len(calls[c].parsedArgs) = Len(calls[c].req.argsWithTypes)
      /\ \A i \in 1..Len(calls[c].req.argsWithTypes) :
           calls[c].parsedArgs[i] = ChainValue(RawArg(c, i), RawArg(c, i))

\* C20 amended: the same chain, applied to the raw text without its leading
\* and trailing whitespace; the last step gives that trimmed text.
C20_ChainTrimmedText ==
  \A c \in Calls :
    PastMaterialising(c) =>
      /\ Len(calls[c].parsedArgs) = Len(calls[c].req.argsWithTypes)
      /\ \A i \in 1..Len(calls[c].req.argsWithTypes) :
           calls[c].parsedArgs[i] = ChainValue(RawArg(c, i), Trim(RawArg(c, i)))

\* two calls are done whose arguments took the structured-data step, the
\* expression step behind the annotation stripping, the blank step and the
\* quote step
C20_Witness ==
  \E c1, c2 \in Calls :
    /\ calls[c1].pc = "DONE"
    /\ calls[c1].req.argsWithTypes = <<A(R_json, "object"), A(R_colonStr, "string")>>
    /\ calls[c1].parsedArgs = <<VObj(<<<<(<<"a">>), VNum(1)>>>>), VStr(<<"a", ":", "b">>)>>
    /\ calls[c2].pc = "DONE"
    /\ calls[c2].req.argsWithTypes = <<A(<<>>, "any"), A(R_badQuote, "string")>>
    /\ calls[c2].parsedArgs = <<VUndef, VStr(<<"a", "'", "b">>)>>

\* the follow-up block of a call has parsed its string
FollowUpParsed(c) ==
  calls[c].pc \in {"FOLLOWUP_INVOKING", "AWAIT_FOLLOWUP"} \/ calls[c].followCalls > 0

\* how many brackets are open before position k of a text
Nesting(str, k) ==
  Cardinality({i \in 1..(k - 1) : str[i] \in {"[", "{", "("}})
    - Cardinality({i \in 1..(k - 1) : str[i] \in {"]", "}", ")"}})

TopLevelCommas(str) ==
  {k \in 1..Len(str) : str[k] = "," /\ Nesting(str, k) = 0}

\* C21: the follow-up string is split only at top-level commas: a comma
\* inside brackets ([1,2], an object literal) starts no new piece, so the
\* number of follow-up arguments is the number of top-level items.
C21_TopLevelSplit ==
  \A c \in Calls :
    FollowUpParsed(c) =>
      Len(calls[c].followArgs) = Cardinality(TopLevelCommas(calls[c].req.testArgs)) + 1

\* steps (e) to (h) of the chain applied to one piece
StepsEToH(piece) ==
  LET text == Trim(piece) IN
  IF text \in Keywords THEN KeywordValue(text)
  ELSE IF text = T_Infinity THEN VInf
  ELSE IF ~IsNaNValue(ToNumber(text)) THEN ToNumber(text)
  ELSE IF IsWrappedIn(text, "'") \/ IsWrappedIn(text, "\"") THEN VStr(SliceInner(text))
  ELSE VStr(text)

\* C22: each follow-up piece is materialised by steps (e) to (h): the exact
\* keywords true, false, null, undefined, NaN, Infinity give their literal
\* values, numeric text its number, text wrapped in matching single or
\* double quotes the inner text, anything else the piece as opaque string.
C22_PieceChain ==
  \A c \in Calls :
    FollowUpParsed(c) =>
      LET pieces == SplitComma(calls[c].req.testArgs)
      IN /\ Len(calls[c].followArgs) = Len(pieces)
         /\ \A i \in 1..Len(pieces) : calls[c].followArgs[i] = StepsEToH(pieces[i])

\* C23: a result that cannot be structurally copied (an object with a
\* cycle) never fails the outcome: the outcome is a success whose value is
\* a string representation of the result.
C23_UncopyableDegrades ==
  \A c \in Calls :
    /\ Terminal(c)
    /\ calls[c].settled.st = "resolved"
    /\ IsCyclic(FinalValue(calls[c]))
    => /\ calls[c].pc = "DONE"
       /\ calls[c].outcome.kind = "returned"
       /\ calls[c].outcome.success
       /\ calls[c].outcome.result.t = "string"

\* C24: the result of an execution is shown only in the result panel of the
\* function whose execution was requested.  Stated for the lists without
\* classes, where the item with data-index i displays functions[i]: a panel
\* that shows a result shows a result of the function its item displays.
C24_ResultInOwnPanel ==
  (\A i \in 1..Len(functions) : IsRegular(functions[i])) =>
    \A k \in 1..Len(panels) :
      panels[k].state = "result" => Dom[k].func.name = panels[k].for

\* C25: the item rendered with data-index i displays functions[i]
C25_IndexDisplays ==
  \A k \in 1..Len(Dom) : Dom[k].func = functions[k]

\* C26: currentFunctions is the list of the functions of the active
\* editor's document, and is empty when that is no TypeScript or JavaScript
\* document
C26_ListOfActiveDocument ==
  currentFunctions =
    IF activeEditor.languageId \in {"typescript", "javascript"}
    THEN parseFunctions(activeEditor.text)
    ELSE <<>>

\* the step posts one message to the webview
Posts(message) == inbox' = Append(inbox, message)

\* C28: a list passed to updateFunctions before the view is resolved is not
\* lost.  While there is no view the buffer holds the list of the most
\* recent call; the step that resolves the view posts that list, once, and
\* empties the buffer; once the view exists nothing is buffered and the
\* list of every call is posted in the step of the call.
C28_BufferedListDelivered ==
  /\ [](IF view THEN pendingFunctions = NoList ELSE pendingFunctions = offered)
  /\ [][/\ ~view /\ view' =>
            /\ pendingFunctions' = NoList
            /\ IF offered.defined THEN Posts(UpdateMessage(offered.list))
               ELSE inbox' = inbox
        /\ view /\ activeEditor' # activeEditor =>
            /\ offered'.defined
            /\ Posts(UpdateMessage(offered'.list))
        /\ ~view' => inbox' = inbox]_vars

\* the view has been resolved after a list with functions was buffered: the
\* webview has drawn nothing yet and the only message under way is that list
C28_Witness ==
  /\ view
  /\ pendingFunctions = NoList
  /\ functions = <<>>
  /\ offered.defined
  /\ Len(offered.list) > 0
  /\ inbox = <<UpdateMessage(offered.list)>>

\* the history a request leaves for the function it names
HistoryAfter(message, time) ==
  LET unshifted == <<[functionName |-> message.functionName, args |-> message.arguments,
                      timestamp |-> time]>> \o HistoryOf(message.functionName)
  IN SubSeq(unshifted, 1, IF Len(unshifted) > MAX_HISTORY_PER_FUNC
                          THEN MAX_HISTORY_PER_FUNC ELSE Len(unshifted))

\* no history holds more than MAX_HISTORY_PER_FUNC records, and each has the
\* most recent record first
HistoriesBounded ==
  \A n \in DOMAIN functionHistory :
    /\ Len(functionHistory[n]) <= MAX_HISTORY_PER_FUNC
    /\ \A i, j \in 1..Len(functionHistory[n]) :
         i < j => functionHistory[n][i].timestamp >= functionHistory[n][j].timestamp

\* the execute button is pressed with input that passes validateInput: the
\* result panel of the element changes to the loading mark or to a message
ValidPress ==
  \E k \in 1..Len(panels) :
    /\ Len(panels') = Len(panels)
    /\ panels'[k] # panels[k]
    /\ panels'[k].state \in {"loading", "message"}

\* C29: the history of a function never holds more than
\* MAX_HISTORY_PER_FUNC records and has the most recent first; every
\* execution request that passes validation puts exactly one record at the
\* front of the history of the selected function, dropping the oldest record
\* beyond the bound, and leaves the other histories as they are.
C29_EveryValidRequest ==
  /\ []HistoriesBounded
  /\ [][ValidPress =>
          LET name == currentFunction.name
          IN /\ name \in DOMAIN functionHistory'
             /\ Len(functionHistory'[name]) >= 1
             /\ functionHistory'[name][1].timestamp = clock
             /\ \E message \in {[functionName |-> name,
                                  arguments |-> functionHistory'[name][1].args]} :
                  functionHistory'[name] = HistoryAfter(message, clock)
             /\ \A n \in DOMAIN functionHistory :
                  n # name => functionHistory'[n] = functionHistory[n]]_vars

\* C29 as amended: the bound and the order as above; a step in which an
\* execution request is sent to the extension puts exactly one record, that
\* of the request, at the front of the history of the function it names,
\* dropping the oldest record beyond the bound, and leaves the other
\* histories as they are; no other step changes a history.
C29_BoundedHistory ==
  /\ []HistoriesBounded
  /\ [][IF Len(outbox') > Len(outbox)
        THEN LET message == outbox'[Len(outbox')]
             IN /\ message.type = "executeFunction"
                /\ DOMAIN functionHistory' = DOMAIN functionHistory \cup {message.functionName}
                /\ functionHistory'[message.functionName] = HistoryAfter(message, clock)
                /\ \A n \in DOMAIN functionHistory :
                     n # message.functionName => functionHistory'[n] = functionHistory[n]
        ELSE functionHistory' = functionHistory]_vars

\* requests for R have been sent MAX_HISTORY_PER_FUNC times or more, at
\* different times, and a request for R.n has been sent too
C29_Witness ==
  /\ <<"R">> \in DOMAIN functionHistory
  /\ <<"R", ".", "n">> \in DOMAIN functionHistory
  /\ Len(functionHistory[<<"R">>]) = MAX_HISTORY_PER_FUNC
  /\ functionHistory[<<"R">>][1].timestamp > functionHistory[<<"R">>][MAX_HISTORY_PER_FUNC].timestamp

\* C27: every executeFunction message the extension handles produces exactly
\* one executionResult message, which carries the index of the request: a
\* handler that has taken a request ends, and the step in which it ends
\* posts one result with that index (a request for an unknown function is
\* answered in the step that takes it).
C27_OneResultPerRequest ==
  /\ \A c \in Calls : [](handling[c] # NoMessage => <>(handling[c] = NoMessage))
  /\ [][\A c \in Calls :
          handling[c] # NoMessage /\ handling'[c] = NoMessage =>
            /\ Len(inbox') = Len(inbox) + 1
            /\ inbox'[Len(inbox')].type = "executionResult"
            /\ inbox'[Len(inbox')].result.index = handling[c].index]_vars

====
